---- MODULE Spec2Model ----
(***************************************************************************)
(* A model of mold, a task runner: the expression language of             *)
(* src/src/expr.rs and the recipe resolution engine of src/src/lib.rs     *)
(* (include merging, remote cloning, dependency closure).                  *)
(***************************************************************************)
EXTENDS Integers, Sequences, FiniteSets, TLC

VARIABLES
  text,      \* expr: the source text handed to compile, a sequence of characters
  tokens,    \* expr: the token vector lex produced
  parsed,    \* expr: the Result<Expr, Error> compile returned
  active,    \* expr: the environment names handed to apply
  applied,   \* expr: the bool apply returned
  epc,       \* expr: "input" -> "compiled" -> "applied" ("off" outside SpecExpr)
  disk,      \* the directories under clone_dir that exist, each with the files it holds
  root,      \* the Mold the command line opened
  targets,   \* the TaskSet handed to find_all_dependencies, in insertion order
  taskdeps,  \* what find_task_dependencies returned for each target
  resolved,  \* what find_all_dependencies returned
  task,      \* what find_task returned
  outcome,   \* how the last call on the Mold ended: "ok", "err" or "diverge"
  mpc,       \* which call on the Mold has returned ("off" outside the Mold specifications)
  origin,    \* what the git servers hold: url -> ref -> the files of the repository
  net,       \* which forms of each url ("https", "raw") a clone succeeds with
  clonelog,  \* the invocations of remote::clone, in order
  checkouts, \* the invocations of remote::checkout, in order
  subject,   \* env: the Recipe whose env_vars is called
  envs,      \* env: the environment names handed to env_vars
  actives,   \* env: the keys active_envs returned, in order
  varmap,    \* env: the VarMap env_vars returned
  vpc,       \* env: "input" -> "done" ("off" outside SpecEnv)
  prev_vars, \* the VarMap the caller handed to find_task
  tasks,     \* run: the Tasks run collected, in the order of the resolved list
  dry,       \* run: args.dry
  next,      \* run: the index of the Task the loop of run is at
  ran,       \* run: the commands spawned so far, each with how it ended
  rpc,       \* run: "exec" -> "done" or "failed" ("off" outside SpecRun)
  remote,    \* remote: the Remote to_string is called on
  shown,     \* remote: the text to_string returned, or the text handed to parse
  reparsed,  \* remote: the Remote parse returned
  upc,       \* remote: "remote" -> "shown" -> "parsed" ("off" outside SpecRemote)
  extensions, \* find: the extensions of the Runtime, in declared order
  script_name, \* find: the name handed to Runtime::find, split at its dots
  dir_files, \* find: the file names of the directory, each split at its dots
  script,    \* find: what Runtime::find returned
  fpc        \* find: "input" -> "done" ("off" outside SpecFind)

exprVars == <<text, tokens, parsed, active, applied, epc>>
moldVars == <<disk, root, targets, taskdeps, resolved, task, outcome, mpc>>
remoteVars == <<origin, net, clonelog, checkouts>>
envVars == <<subject, envs, actives, varmap, vpc>>
runVars == <<tasks, dry, next, ran, rpc>>
urlVars == <<remote, shown, reparsed, upc>>
findVars == <<extensions, script_name, dir_files, script, fpc>>
otherVars == <<envVars, prev_vars, runVars, urlVars, findVars>>
vars == <<exprVars, moldVars, remoteVars, otherVars>>

\* ------------------------------------------------------------------ bounds

MaxLen == 5
MaxDeps == 2
MaxTargets == 1
MaxIncludes == 2

\* ------------------------------------------------------------------ helpers

BSeq(S, n) == UNION {[1..k -> S] : k \in 0..n}

\* the element of a set of one element: Only({e : x \in {v}}) is e with x bound
\* to the value of v, as after `let x = v;`
Only(S) == CHOOSE x \in S : TRUE

\* ------------------------------------------------------------------ expr.rs

NameChars == {"a", "b"}
Alphabet == NameChars \cup {"+", "|", "~", "*", "?", "(", ")", " "}

Tok(t) == [t |-> t, name |-> <<>>]
TokName(n) == [t |-> "Name", name |-> n]

\* the index of the last character of the name that starts at s[i]
RECURSIVE lex_name_end_joins(_, _)
lex_name_end_joins(s, i) ==
  IF i + 1 <= Len(s) /\ s[i + 1] \in NameChars \cup {"!", "."}
    THEN lex_name_end_joins(s, i + 1) ELSE i
RECURSIVE lex_name_end(_, _)
lex_name_end(s, i) ==
  IF i + 1 <= Len(s) /\ s[i + 1] \in NameChars THEN lex_name_end(s, i + 1) ELSE i

lex_name(s, i) == TokName(SubSeq(s, i, lex_name_end(s, i)))

RECURSIVE lex_from(_, _)
lex_from(s, i) ==
  IF i > Len(s) THEN <<>>
  ELSE LET c == s[i] IN
    IF c \in NameChars THEN <<lex_name(s, i)>> \o lex_from(s, lex_name_end(s, i) + 1)
    ELSE IF c = "+" THEN <<Tok("And")>> \o lex_from(s, i + 1)
    ELSE IF c = "|" THEN <<Tok("Or")>> \o lex_from(s, i + 1)
    ELSE IF c \in {"*", "?"} THEN <<Tok("Wild")>> \o lex_from(s, i + 1)
    ELSE IF c = "~" THEN <<Tok("Not")>> \o lex_from(s, i + 1)
    ELSE IF c = "(" THEN <<Tok("Pal")>> \o lex_from(s, i + 1)
    ELSE IF c = ")" THEN <<Tok("Par")>> \o lex_from(s, i + 1)
    ELSE lex_from(s, i + 1)

lex(s) == lex_from(s, 1)

\* Expr
And(x, y) == [t |-> "And", l |-> x, r |-> y]
Or(x, y) == [t |-> "Or", l |-> x, r |-> y]
Not(x) == [t |-> "Not", x |-> x]
Group(x) == [t |-> "Group", x |-> x]
Atom(n) == [t |-> "Atom", name |-> n]
Wild == [t |-> "Wild"]

\* Result<Expr, Error> together with the position of the token iterator
POk(e, pos) == [ok |-> TRUE, e |-> e, err |-> "", pos |-> pos]
PErr(msg, pos) == [ok |-> FALSE, e |-> Wild, err |-> msg, pos |-> pos]

RECURSIVE parse_expr(_, _), parse_or(_, _), parse_and(_, _), parse_not(_, _), parse_atom(_, _)

parse_atom(toks, pos) ==
  IF pos > Len(toks) THEN PErr("unexpected end of expression", pos)
  ELSE LET tk == toks[pos] IN
    IF tk.t = "Pal" THEN
      LET inner == parse_expr(toks, pos + 1) IN
        IF ~inner.ok THEN inner
        ELSE IF inner.pos <= Len(toks) /\ toks[inner.pos].t = "Par"
          THEN POk(Group(inner.e), inner.pos + 1)
          ELSE PErr("expected close parenthesis",
                    IF inner.pos <= Len(toks) THEN inner.pos + 1 ELSE inner.pos)
    ELSE IF tk.t = "Name" THEN POk(Atom(tk.name), pos + 1)
    ELSE IF tk.t = "Wild" THEN POk(Wild, pos + 1)
    ELSE PErr("expected name or open parenthesis", pos + 1)

parse_not(toks, pos) ==
  IF pos <= Len(toks) /\ toks[pos].t = "Not" THEN
    LET inner == parse_atom(toks, pos + 1) IN
      IF inner.ok THEN POk(Not(inner.e), inner.pos) ELSE inner
  ELSE parse_atom(toks, pos)

parse_and(toks, pos) ==
  LET lhs == parse_not(toks, pos) IN
    IF ~lhs.ok THEN lhs
    ELSE IF lhs.pos <= Len(toks) /\ toks[lhs.pos].t = "And" THEN
      LET rhs == parse_expr(toks, lhs.pos + 1) IN
        IF rhs.ok THEN POk(And(lhs.e, rhs.e), rhs.pos) ELSE rhs
    ELSE lhs

parse_or(toks, pos) ==
  LET lhs == parse_and(toks, pos) IN
    IF ~lhs.ok THEN lhs
    ELSE IF lhs.pos <= Len(toks) /\ toks[lhs.pos].t = "Or" THEN
      LET rhs == parse_expr(toks, lhs.pos + 1) IN
        IF rhs.ok THEN POk(Or(lhs.e, rhs.e), rhs.pos) ELSE rhs
    ELSE lhs

parse_expr(toks, pos) == parse_or(toks, pos)

parse_mutant(toks) == parse_expr(toks, 1)

parse(toks) ==
  Only({ IF ~expr.ok THEN expr
         ELSE IF expr.pos <= Len(toks) THEN PErr("expected end of expression", expr.pos + 1)
         ELSE expr
         : expr \in {parse_expr(toks, 1)} })

compile(s) == parse(lex(s))

RECURSIVE apply_mutant(_, _)
apply_mutant(e, to) ==
  CASE e.t = "And" -> apply_mutant(e.l, to) /\ apply_mutant(e.r, to)
    [] e.t = "Or" -> apply_mutant(e.l, to) \/ apply_mutant(e.r, to)
    [] e.t = "Not" -> apply_mutant(e.x, to)
    [] e.t = "Group" -> apply_mutant(e.x, to)
    [] e.t = "Atom" -> e.name \in to
    [] e.t = "Wild" -> TRUE

RECURSIVE apply(_, _)
apply(e, to) ==
  CASE e.t = "And" -> apply(e.l, to) /\ apply(e.r, to)
    [] e.t = "Or" -> apply(e.l, to) \/ apply(e.r, to)
    [] e.t = "Not" -> ~apply(e.x, to)
    [] e.t = "Group" -> apply(e.x, to)
    [] e.t = "Atom" -> e.name \in to
    [] e.t = "Wild" -> TRUE

\* ------------------------------------------------------------------ lib.rs: data

\* Option<T>: None is the empty sequence, Some(x) the sequence of x alone
None == <<>>
Some(x) == <<x>>

\* Result<T, Error>; "diverge" is a call that never returns (unbounded recursion)
Ok(v) == [st |-> "ok", v |-> v]
Err(v) == [st |-> "err", v |-> v]
Diverge(v) == [st |-> "diverge", v |-> v]

MOLD_FILES == <<"mold.yaml", "mold.yml", "moldfile", "Moldfile">>

\* VarMap: a map from variable names to values; NoVars is the empty one
NoVars == [k \in {} |-> ""]

\* VarMap::insert and VarMap::extend: the entry of `other` replaces one of the same key
insert_var(vars_, k, v) == [x \in DOMAIN vars_ \cup {k} |-> IF x = k THEN v ELSE vars_[x]]
extend_vars(vars_, other) ==
  [x \in DOMAIN vars_ \cup DOMAIN other |-> IF x \in DOMAIN other THEN other[x] ELSE vars_[x]]

\* EnvMap: the (test, variables) entries of an environments map in declaration
\* order, no two with the same test
EnvEntry(test, variables) == [test |-> test, variables |-> variables]

\* EnvMap::get
env_get(env_map, test) ==
  LET found == {i \in 1..Len(env_map) : env_map[i].test = test} IN
    IF found = {} THEN None ELSE Some(env_map[CHOOSE i \in found : TRUE].variables)

\* active_envs: the tests that compile and are true on envs, in declaration
\* order; a test that fails to compile is reported and skipped
RECURSIVE active_envs_abort(_, _)
active_envs_abort(env_map, envs_) ==
  IF env_map = <<>> THEN <<>>
  ELSE Only({ IF ~ex.ok THEN <<>>
              ELSE (IF apply(ex.e, envs_) THEN <<Head(env_map).test>> ELSE <<>>)
                     \o active_envs_abort(Tail(env_map), envs_)
              : ex \in {compile(Head(env_map).test)} })
RECURSIVE active_envs(_, _)
active_envs(env_map, envs_) ==
  IF env_map = <<>> THEN <<>>
  ELSE Only({ (IF ex.ok /\ apply(ex.e, envs_) THEN <<Head(env_map).test>> ELSE <<>>)
                \o active_envs(Tail(env_map), envs_)
              : ex \in {compile(Head(env_map).test)} })

\* the loop of env_vars: the variables of each active entry extend the map
RECURSIVE overlay_first_wins(_, _, _)
overlay_first_wins(vars_, env_map, active_) ==
  IF active_ = <<>> THEN vars_
  ELSE LET env == env_get(env_map, Head(active_))
           rest == overlay_first_wins(vars_, env_map, Tail(active_))
       IN IF env = None THEN rest ELSE extend_vars(rest, env[1])
RECURSIVE overlay(_, _, _)
overlay(vars_, env_map, active_) ==
  IF active_ = <<>> THEN vars_
  ELSE LET env == env_get(env_map, Head(active_)) IN
    overlay(IF env = None THEN vars_ ELSE extend_vars(vars_, env[1]), env_map, Tail(active_))

\* Recipe::env_vars
env_vars(recipe, envs_) ==
  overlay(recipe.variables, recipe.environments, active_envs(recipe.environments, envs_))

default_git_ref == "master"

\* Recipe::Command; `command` stands for the argument list, which differs
\* between any two declarations
Command(command, deps) ==
  [kind |-> "Command", deps |-> deps, url |-> "", ref_ |-> "", file |-> None,
   command |-> command, search_dir |-> None,
   variables |-> NoVars, environments |-> <<>>, work_dir |-> None]

\* Recipe::Module
Module(url, ref_, file) ==
  [kind |-> "Module", deps |-> <<>>, url |-> url, ref_ |-> ref_, file |-> file,
   command |-> <<>>, search_dir |-> None,
   variables |-> NoVars, environments |-> <<>>, work_dir |-> None]

Include(url, ref_, file) == [url |-> url, ref_ |-> ref_, file |-> file]

Moldfile(recipes, runtimes, includes) ==
  [recipes |-> recipes, runtimes |-> runtimes, includes |-> includes,
   variables |-> NoVars, environments |-> <<>>]

\* a Recipe or a Moldfile with the given `variables` and `environments`
with_variables(entity, variables, environments) ==
  [entity EXCEPT !.variables = variables, !.environments = environments]

\* a map with no entry
Empty == [k \in {} |-> None]

\* util::hash_url_ref: the folder name is a function of (url, ref) alone
hash_url_ref(url, ref_) == <<url, ref_>>

folder_name(r) == hash_url_ref(r.url, r.ref_)

\* Recipe::deps
deps(recipe) == IF recipe.kind = "Module" THEN <<>> ELSE recipe.deps

\* Recipe::set_search_dir
set_search_dir(recipe, to) == [recipe EXCEPT !.search_dir = to]

\* IndexSet::insert and IndexSet::extend: insertion order, first occurrence kept
insert(set, x) == IF \E i \in 1..Len(set) : set[i] = x THEN set ELSE Append(set, x)

RECURSIVE extend(_, _)
extend(set, xs) == IF xs = <<>> THEN set ELSE extend(insert(set, Head(xs)), Tail(xs))

\* ------------------------------------------------------------------ lib.rs: opening

\* Mold::open on a moldfile of the directory `path` whose recipe_dir is ".", so
\* that dir and root_dir are both that directory; clone_dir and script_dir are
\* the .clones and .scripts directories under it until adopt replaces them
open(path, data) ==
  [file |-> Append(path, MOLD_FILES[1]), dir |-> path, root_dir |-> path,
   clone_dir |-> Append(path, ".clones"), script_dir |-> Append(path, ".scripts"),
   envs |-> <<>>, data |-> data]

\* the first of MOLD_FILES the directory holds
RECURSIVE first_mold_file(_, _)
first_mold_file(files, i) ==
  IF i > Len(MOLD_FILES) THEN None
  ELSE IF MOLD_FILES[i] \in DOMAIN files THEN Some(MOLD_FILES[i])
  ELSE first_mold_file(files, i + 1)

\* Mold::discover: the named file of the directory, or the first of MOLD_FILES
discover(dsk, path, file) ==
  IF path \notin DOMAIN dsk THEN Err(None)
  ELSE LET name == IF file # None THEN file ELSE first_mold_file(dsk[path], 1) IN
    IF name = None \/ name[1] \notin DOMAIN dsk[path] THEN Err(None)
    ELSE Ok([open(path, dsk[path][name[1]]) EXCEPT !.file = Append(path, name[1])])

\* Mold::adopt
adopt(self, parent) ==
  [self EXCEPT !.clone_dir = parent.clone_dir, !.script_dir = parent.script_dir,
               !.envs = parent.envs]

\* a Vec<String> read as a slice: the names it contains
as_slice(v) == {v[i] : i \in 1..Len(v)}

\* Mold::env_vars: the moldfile's variables, then the special variables, then
\* the variables of the active environments
mold_env_vars(self) ==
  LET vars0 == self.data.variables
      vars1 == insert_var(vars0, "MOLD_ROOT", self.root_dir)
      vars2 == insert_var(vars1, "MOLD_FILE", self.file)
      vars3 == insert_var(vars2, "MOLD_DIR", self.dir)
      vars4 == insert_var(vars3, "MOLD_CLONE_DIR", self.clone_dir)
      vars5 == insert_var(vars4, "MOLD_SCRIPT_DIR", self.script_dir)
  IN overlay(vars5, self.data.environments,
             active_envs(self.data.environments, as_slice(self.envs)))

\* Moldfile::merge_absent
merge_absent_overwrite(self, other) ==
  [self EXCEPT
    !.runtimes = [k \in DOMAIN self.runtimes \cup DOMAIN other.data.runtimes |->
                    IF k \in DOMAIN other.data.runtimes THEN other.data.runtimes[k]
                    ELSE self.runtimes[k]],
    !.recipes = [k \in DOMAIN self.recipes \cup DOMAIN other.data.recipes |->
                    IF k \in DOMAIN other.data.recipes
                      THEN set_search_dir(other.data.recipes[k], Some(other.dir))
                      ELSE self.recipes[k]]]
merge_absent_prefixed(self, other) ==
  [self EXCEPT
    !.runtimes = [k \in DOMAIN self.runtimes \cup DOMAIN other.data.runtimes |->
                    IF k \in DOMAIN self.runtimes THEN self.runtimes[k]
                    ELSE other.data.runtimes[k]],
    !.recipes = [k \in DOMAIN self.recipes \cup DOMAIN other.data.recipes |->
                    IF k \in DOMAIN self.recipes THEN self.recipes[k]
                    ELSE [set_search_dir(other.data.recipes[k], Some(other.dir)) EXCEPT
                            !.deps = [i \in 1..Len(@) |-> <<"mod">> \o @[i]]]]]
merge_absent(self, other) ==
  [self EXCEPT
    !.runtimes = [k \in DOMAIN self.runtimes \cup DOMAIN other.data.runtimes |->
                    IF k \in DOMAIN self.runtimes THEN self.runtimes[k]
                    ELSE other.data.runtimes[k]],
    !.recipes = [k \in DOMAIN self.recipes \cup DOMAIN other.data.recipes |->
                    IF k \in DOMAIN self.recipes THEN self.recipes[k]
                    ELSE set_search_dir(other.data.recipes[k], Some(other.dir))]]

RECURSIVE merge_all_last_first(_, _)
merge_all_last_first(data, merges) ==
  IF merges = <<>> THEN data
  ELSE merge_absent(merge_all_last_first(data, Tail(merges)), Head(merges))

RECURSIVE merge_all(_, _)
merge_all(data, merges) ==
  IF merges = <<>> THEN data ELSE merge_all(merge_absent(data, Head(merges)), Tail(merges))

\* Mold::process_includes. `stack` holds the moldfiles whose process_includes is
\* running: entering one of them again never returns.
RECURSIVE process_includes(_, _, _), collect_merges(_, _, _, _, _)

collect_merges(self, dsk, stack, i, merges) ==
  IF i > Len(self.data.includes) THEN Ok(merges)
  ELSE
    LET include == self.data.includes[i]
        path == Append(self.clone_dir, folder_name(include))
        found == discover(dsk, path, include.file)
        id == <<path, include.file>>
    IN IF found.st # "ok" THEN Err(<<>>)
       ELSE IF id \in stack THEN Diverge(<<>>)
       ELSE LET merge == process_includes(adopt(found.v, self), dsk, stack \cup {id}) IN
         IF merge.st # "ok" THEN [merge EXCEPT !.v = <<>>]
         ELSE collect_merges(self, dsk, stack, i + 1, Append(merges, merge.v))

process_includes(self, dsk, stack) ==
  LET merges == collect_merges(self, dsk, stack, 1, <<>>) IN
    IF merges.st # "ok" THEN [merges EXCEPT !.v = self]
    ELSE Ok([self EXCEPT !.data = merge_all(self.data, merges.v)])

\* Mold::find_recipe
find_recipe_mutant(self, target_name) ==
  IF target_name \in DOMAIN self.data.recipes
    THEN Ok(self.data.recipes[target_name]) ELSE Ok(Command(<<>>, <<>>))
find_recipe(self, target_name) ==
  IF target_name \in DOMAIN self.data.recipes
    THEN Ok(self.data.recipes[target_name]) ELSE Err(None)

\* Mold::find_module
find_module(self, module_name) ==
  LET recipe == find_recipe(self, module_name) IN
    IF recipe.st = "ok" /\ recipe.v.kind # "Module" THEN Err(None) ELSE recipe

\* Mold::open_module
open_module(self, dsk, module_name) ==
  LET target == find_module(self, module_name) IN
    IF target.st # "ok" THEN Err(None)
    ELSE LET path == Append(self.clone_dir, folder_name(target.v))
             found == discover(dsk, path, target.v.file)
         IN IF found.st # "ok" THEN Err(None)
            ELSE LET mold == process_includes(adopt(found.v, self), dsk, {<<path, target.v.file>>})
                 IN IF mold.st # "ok" THEN [mold EXCEPT !.v = None] ELSE mold

\* ------------------------------------------------------------------ lib.rs: dependencies

\* format!("{}/{}", module_name, x) on every name of a set
requalify_mutant(module_name, set) == set
requalify(module_name, set) ==
  extend(<<>>, [i \in 1..Len(set) |-> <<module_name>> \o set[i]])

\* the body of the loop of find_all_dependencies: the dependencies, then the target
add_target_first(new_targets, task_deps, target_name) ==
  extend(insert(new_targets, target_name), task_deps)
add_target_dropped(new_targets, task_deps, target_name) ==
  extend(new_targets, task_deps)
add_target(new_targets, task_deps, target_name) ==
  insert(extend(new_targets, task_deps), target_name)

\* `stack` holds the (moldfile, target) pairs whose find_task_dependencies is
\* running: entering one of them again never returns.
RECURSIVE find_all_dependencies(_, _, _, _), find_all_loop(_, _, _, _, _, _),
          find_task_dependencies(_, _, _, _)

find_all_loop(self, dsk, stack, tgts, i, new_targets) ==
  IF i > Len(tgts) THEN Ok(new_targets)
  ELSE Only({
    IF found.st # "ok" THEN found
    ELSE find_all_loop(self, dsk, stack, tgts, i + 1, add_target(new_targets, found.v, tgts[i]))
    : found \in {find_task_dependencies(self, dsk, stack, tgts[i])} })

find_all_dependencies(self, dsk, stack, tgts) == find_all_loop(self, dsk, stack, tgts, 1, <<>>)

find_task_dependencies_tracked(self, dsk, stack, target) ==
  LET id == <<self.dir, target>> IN
  IF id \in stack THEN Ok(<<>>)
  ELSE IF Len(target) > 1 THEN
    LET module_name == Head(target)
        recipe_name == Tail(target)
    IN Only({
      IF module.st # "ok" THEN [module EXCEPT !.v = <<>>]
      ELSE Only({
        IF found.st # "ok" THEN found
        ELSE Only({
          IF full_deps.st # "ok" THEN full_deps
          ELSE Ok(requalify(module_name, full_deps.v))
          : full_deps \in {find_all_dependencies(module.v, dsk, stack \cup {id}, found.v)} })
        : found \in {find_task_dependencies(module.v, dsk, stack \cup {id}, recipe_name)} })
      : module \in {open_module(self, dsk, module_name)} })
  ELSE Only({
    IF recipe.st # "ok" THEN Err(<<>>)
    ELSE find_all_dependencies(self, dsk, stack \cup {id}, extend(<<>>, deps(recipe.v)))
    : recipe \in {find_recipe(self, target[1])} })
find_task_dependencies(self, dsk, stack, target) ==
  LET id == <<self.dir, target>> IN
  IF id \in stack THEN Diverge(<<>>)
  ELSE IF Len(target) > 1 THEN
    LET module_name == Head(target)
        recipe_name == Tail(target)
    IN Only({
      IF module.st # "ok" THEN [module EXCEPT !.v = <<>>]
      ELSE Only({
        IF found.st # "ok" THEN found
        ELSE Only({
          IF full_deps.st # "ok" THEN full_deps
          ELSE Ok(requalify(module_name, full_deps.v))
          : full_deps \in {find_all_dependencies(module.v, dsk, stack \cup {id}, found.v)} })
        : found \in {find_task_dependencies(module.v, dsk, stack \cup {id}, recipe_name)} })
      : module \in {open_module(self, dsk, module_name)} })
  ELSE Only({
    IF recipe.st # "ok" THEN Err(<<>>)
    ELSE find_all_dependencies(self, dsk, stack \cup {id}, extend(<<>>, deps(recipe.v)))
    : recipe \in {find_recipe(self, target[1])} })

\* Task::from_args
from_args(args, vars_, work_dir) == [args |-> args, vars |-> vars_, work_dir |-> work_dir]

\* the variables find_task hands to the module: the module's own, then the
\* caller's over them
merge_vars_inner_wins(module_vars, prev_vars_) == extend_vars(prev_vars_, module_vars)
merge_vars(module_vars, prev_vars_) == extend_vars(module_vars, prev_vars_)

\* Mold::help_prefixed: one line is printed for each recipe, and the call has
\* no failing path
help_prefixed_fails(self, prefix) == Err(None)
help_prefixed(self, prefix) == Ok(None)

\* Mold::find_task for the recipes of the model, Command and Module: the Task
\* of the recipe the name leads to, or None for a Module recipe
RECURSIVE find_task(_, _, _, _)
find_task(self, dsk, target_name, prev_vars_) ==
  IF Len(target_name) > 1 THEN
    LET module_name == Head(target_name)
        recipe_name == Tail(target_name)
    IN Only({
      IF recipe.st # "ok" THEN Err(None)
      ELSE Only({
        IF module.st # "ok" THEN [module EXCEPT !.v = None]
        ELSE Only({
          IF found.st # "ok" \/ found.v = None \/ found.v[1].vars = None THEN found
          ELSE Ok(Some([found.v[1] EXCEPT !.vars =
                 Some(extend_vars(@[1], env_vars(recipe.v, as_slice(self.envs))))]))
          : found \in {find_task(module.v, dsk, recipe_name,
                                 merge_vars(mold_env_vars(module.v), prev_vars_))} })
        : module \in {open_module(self, dsk, module_name)} })
      : recipe \in {find_recipe(self, module_name)} })
  ELSE Only({
    IF recipe.st # "ok" THEN Err(None)
    ELSE LET search_dir == IF recipe.v.search_dir = None THEN self.dir
                           ELSE recipe.v.search_dir[1]
             work_dir == IF recipe.v.work_dir = None THEN self.root_dir
                         ELSE self.root_dir \o recipe.v.work_dir[1]
         IN Only({
           IF recipe.v.kind = "Module" THEN
             Only({ IF module.st # "ok" THEN [module EXCEPT !.v = None]
                    ELSE IF help_prefixed(module.v, <<target_name[1], "/">>).st # "ok"
                      THEN Err(None)
                    ELSE Ok(None)
                    : module \in {open_module(self, dsk, target_name[1])} })
           ELSE Ok(Some(from_args(recipe.v.command, Some(vars_), work_dir)))
           : vars_ \in {insert_var(
                          insert_var(
                            insert_var(
                              extend_vars(prev_vars_, env_vars(recipe.v, as_slice(self.envs))),
                              "MOLD_MODULE_ROOT", self.root_dir),
                            "MOLD_SEARCH_DIR", search_dir),
                          "MOLD_WORK_DIR", work_dir)} })
    : recipe \in {find_recipe(self, target_name[1])} })

\* ------------------------------------------------------------------ lib.rs: execution

\* how a spawned command can end: it could not be spawned, or it exited
Endings == {"spawn_failed", "exit_nonzero", "exit_zero"}

\* Task::exec, given how the command ends: nothing is spawned for empty args;
\* a spawn failure and a non-zero exit are both Err
exec_ignores_exit(task_, ending) ==
  IF task_.args = <<>> THEN Ok(None)
  ELSE IF ending = "spawn_failed" THEN Err(None)
  ELSE Ok(None)
exec(task_, ending) ==
  IF task_.args = <<>> THEN Ok(None)
  ELSE IF ending = "spawn_failed" THEN Err(None)
  ELSE IF ending # "exit_zero" THEN Err(None)
  ELSE Ok(None)

\* ------------------------------------------------------------------ lib.rs: cloning

\* the recipe names of the model, in the order a BTreeMap iterates them
KeyOrder == <<"a", "b", "build", "m", "test">>
sorted_keys(map) == SelectSeq(KeyOrder, LAMBDA k : k \in DOMAIN map)

\* the file system and the calls made on the remote module: fs.disk, fs.clonelog,
\* fs.checkouts; env.origin and env.net are the servers

\* remote::clone(url, path) with the url in one form: the call is logged, and
\* the directory exists afterwards if the server answers to that form
remote_clone(fs, env, form, url, path) ==
  LET logged == [fs EXCEPT !.clonelog = Append(@, [form |-> form, url |-> url, path |-> path,
                                                  existed |-> path \in DOMAIN fs.disk,
                                                  ok |-> form \in env.net[url]])]
  IN IF form \in env.net[url]
       THEN Ok([logged EXCEPT !.disk =
                  [p \in DOMAIN @ \cup {path} |->
                     IF p = path THEN [n \in {".git"} |-> url] ELSE @[p]]])
       ELSE Err(logged)

\* remote::checkout(path, ref): the work tree becomes the files of the ref
remote_checkout(fs, env, path, ref_) ==
  LET url == fs.disk[path][".git"]
      files == env.origin[url][ref_]
      logged == [fs EXCEPT !.checkouts = Append(@, [path |-> path, ref_ |-> ref_])]
  IN IF ref_ \notin DOMAIN env.origin[url] THEN Err(logged)
     ELSE Ok([logged EXCEPT !.disk[path] =
               [n \in DOMAIN files \cup {".git"} |-> IF n = ".git" THEN url ELSE files[n]]])

\* remote::clone(&format!("https://{}", url), &path).or_else(|_| remote::clone(url, &path))
clone_both_forms(fs, env, url, path) ==
  LET first == remote_clone(fs, env, "https", url, path)
      second == remote_clone(first.v, env, "raw", url, path)
  IN IF first.st = "ok" THEN [second EXCEPT !.st = "ok"] ELSE second
clone_or_else(fs, env, url, path) ==
  LET first == remote_clone(fs, env, "https", url, path) IN
    IF first.st = "ok" THEN first ELSE remote_clone(first.v, env, "raw", url, path)

RECURSIVE clone_all(_, _, _), clone(_, _, _, _, _, _, _), clone_modules(_, _, _, _, _),
          clone_includes(_, _, _, _)

clone_rechecks(self, fs, env, folder, url, ref_, file) ==
  LET path == Append(self.clone_dir, folder) IN
    IF path \in DOMAIN fs.disk
      THEN [remote_checkout(fs, env, path, ref_) EXCEPT !.st = "ok"]
    ELSE LET cloned == clone_or_else(fs, env, url, path) IN
      IF cloned.st # "ok" THEN cloned
      ELSE LET checked == remote_checkout(cloned.v, env, path, ref_) IN
        IF checked.st # "ok" THEN checked
        ELSE LET found == discover(checked.v.disk, path, file) IN
          IF found.st # "ok" THEN Err(checked.v)
          ELSE clone_all(adopt(found.v, self), checked.v, env)

\* Mold::clone
clone(self, fs, env, folder, url, ref_, file) ==
  LET path == Append(self.clone_dir, folder) IN
    IF path \in DOMAIN fs.disk THEN Ok(fs)
    ELSE LET cloned == clone_or_else(fs, env, url, path) IN
      IF cloned.st # "ok" THEN cloned
      ELSE LET checked == remote_checkout(cloned.v, env, path, ref_) IN
        IF checked.st # "ok" THEN checked
        ELSE LET found == discover(checked.v.disk, path, file) IN
          IF found.st # "ok" THEN Err(checked.v)
          ELSE clone_all(adopt(found.v, self), checked.v, env)

\* Mold::clone_module on every Module recipe, in key order
clone_modules(self, fs, env, keys, i) ==
  IF i > Len(keys) THEN Ok(fs)
  ELSE LET recipe == self.data.recipes[keys[i]] IN
    IF recipe.kind # "Module" THEN clone_modules(self, fs, env, keys, i + 1)
    ELSE LET done == clone(self, fs, env, folder_name(recipe), recipe.url, recipe.ref_,
                           recipe.file) IN
      IF done.st # "ok" THEN done ELSE clone_modules(self, done.v, env, keys, i + 1)

\* Mold::clone_include on every Include, in declaration order
clone_includes(self, fs, env, i) ==
  IF i > Len(self.data.includes) THEN Ok(fs)
  ELSE LET include == self.data.includes[i]
           done == clone(self, fs, env, folder_name(include), include.url, include.ref_,
                         include.file)
       IN IF done.st # "ok" THEN done ELSE clone_includes(self, done.v, env, i + 1)

\* Mold::clone_all
clone_all(self, fs, env) ==
  LET modules == clone_modules(self, fs, env, sorted_keys(self.data.recipes), 1) IN
    IF modules.st # "ok" THEN modules ELSE clone_includes(self, modules.v, env, 1)

\* ------------------------------------------------------------------ lib.rs: updating

\* Mold::open_include
open_include(self, dsk, target) ==
  LET found == discover(dsk, Append(self.clone_dir, folder_name(target)), target.file) IN
    IF found.st # "ok" THEN Err(None) ELSE Ok(adopt(found.v, self))

\* `updated` is handed to the recursive call as &mut: what the call inserted
\* is in the set when the call returns
by_value(own, returned) == own
by_reference(own, returned) == returned

\* Mold::update_all_track; the result carries the file system and `updated`
RECURSIVE update_all_track(_, _, _, _), update_modules(_, _, _, _, _, _),
          update_includes(_, _, _, _, _)

\* the loop over the Module recipes, in key order
update_modules(self, fs, env, updated, keys, i) ==
  IF i > Len(keys) THEN Ok([fs |-> fs, updated |-> updated])
  ELSE LET recipe == self.data.recipes[keys[i]]
           path == Append(self.clone_dir, folder_name(recipe))
           marked == updated \cup {path}
       IN IF recipe.kind # "Module" \/ path \notin DOMAIN fs.disk \/ path \in updated
            THEN update_modules(self, fs, env, updated, keys, i + 1)
          ELSE Only({
            IF checked.st # "ok" THEN Err([fs |-> checked.v, updated |-> marked])
            ELSE Only({
              IF module.st # "ok"
                THEN [st |-> module.st, v |-> [fs |-> checked.v, updated |-> marked]]
              ELSE Only({
                IF done.st # "ok" THEN done
                ELSE update_modules(self, done.v.fs, env,
                                    by_reference(marked, done.v.updated), keys, i + 1)
                : done \in {update_all_track(module.v, checked.v, env, marked)} })
              : module \in {open_module(self, checked.v.disk, keys[i])} })
            : checked \in {remote_checkout(fs, env, path, recipe.ref_)} })

\* the loop over the Includes, in declaration order
update_includes(self, fs, env, updated, i) ==
  IF i > Len(self.data.includes) THEN Ok([fs |-> fs, updated |-> updated])
  ELSE LET include == self.data.includes[i]
           path == Append(self.clone_dir, folder_name(include))
           marked == updated \cup {path}
       IN IF path \notin DOMAIN fs.disk \/ path \in updated
            THEN update_includes(self, fs, env, updated, i + 1)
          ELSE Only({
            IF checked.st # "ok" THEN Err([fs |-> checked.v, updated |-> marked])
            ELSE Only({
              IF opened.st # "ok" THEN Err([fs |-> checked.v, updated |-> marked])
              ELSE Only({
                IF done.st # "ok" THEN done
                ELSE update_includes(self, done.v.fs, env,
                                     by_reference(marked, done.v.updated), i + 1)
                : done \in {update_all_track(opened.v, checked.v, env, marked)} })
              : opened \in {open_include(self, checked.v.disk, include)} })
            : checked \in {remote_checkout(fs, env, path, include.ref_)} })

update_all_track(self, fs, env, updated) ==
  Only({ IF modules.st # "ok" THEN modules
         ELSE update_includes(self, modules.v.fs, env, modules.v.updated, 1)
         : modules \in {update_modules(self, fs, env, updated,
                                       sorted_keys(self.data.recipes), 1)} })

\* Mold::update_all
update_all(self, fs, env) == update_all_track(self, fs, env, {})

\* ------------------------------------------------------------------ remote.rs: Remote

\* texts are sequences of characters

\* str::find: the index of the first occurrence of the character, 0 for none
find(s, c) ==
  IF \E i \in 1..Len(s) : s[i] = c
    THEN CHOOSE i \in 1..Len(s) : s[i] = c /\ \A j \in 1..(i - 1) : s[j] # c
    ELSE 0

\* str::trim_start_matches: the text without its leading run of the character
RECURSIVE trim_start_matches(_, _)
trim_start_matches(s, c) ==
  IF s # <<>> /\ Head(s) = c THEN trim_start_matches(Tail(s), c) ELSE s

\* "master"
Master == <<"m", "a", "s", "t", "e", "r">>

Remote(url, ref_, file) == [url |-> url, ref_ |-> ref_, file |-> file]

\* the parse of url[#[ref][/file]] that Remote::parse and Include::parse share
parse_remote(text_, default_ref) ==
  LET idx == find(text_, "#") IN
    IF idx = 0 THEN Remote(text_, default_ref, None)
    ELSE LET url == SubSeq(text_, 1, idx - 1)
             frag == trim_start_matches(SubSeq(text_, idx, Len(text_)), "#")
             slash == find(frag, "/")
         IN IF slash = 0 THEN Remote(url, frag, None)
            ELSE LET ref_ == SubSeq(frag, 1, slash - 1)
                     file == trim_start_matches(SubSeq(frag, slash, Len(frag)), "/")
                 IN Remote(url, IF ref_ = <<>> THEN default_ref ELSE ref_, Some(file))

\* Remote::parse
remote_parse(text_) == parse_remote(text_, Master)

\* Include::parse
include_parse(text_) == parse_remote(text_, Master)

\* impl ToString for Remote
remote_to_string_no_file(r) == r.url \o <<"#">> \o r.ref_
remote_to_string(r) ==
  IF r.file # None THEN r.url \o <<"#">> \o r.ref_ \o <<"/">> \o r.file[1]
  ELSE r.url \o <<"#">> \o r.ref_

\* ------------------------------------------------------------------ specifications

NoMold == open(<<>>, Moldfile(Empty, Empty, <<>>))

ExprIdle ==
  /\ text = <<>>
  /\ tokens = <<>>
  /\ parsed = PErr("", 0)
  /\ active = {}
  /\ applied = FALSE
  /\ epc = "off"

RemoteIdle ==
  /\ origin = Empty
  /\ net = Empty
  /\ clonelog = <<>>
  /\ checkouts = <<>>

MoldIdle ==
  /\ disk = Empty
  /\ root = NoMold
  /\ targets = <<>>
  /\ taskdeps = <<>>
  /\ resolved = Err(<<>>)
  /\ task = Err(None)
  /\ outcome = "ok"
  /\ mpc = "off"
  /\ RemoteIdle

EnvIdle ==
  /\ subject = Command(<<>>, <<>>)
  /\ envs = {}
  /\ actives = <<>>
  /\ varmap = NoVars
  /\ vpc = "off"

RunIdle ==
  /\ tasks = <<>>
  /\ dry = FALSE
  /\ next = 1
  /\ ran = <<>>
  /\ rpc = "off"

NoRemote == Remote(<<>>, <<>>, None)

UrlIdle ==
  /\ remote = NoRemote
  /\ shown = <<>>
  /\ reparsed = NoRemote
  /\ upc = "off"

FindIdle ==
  /\ extensions = <<>>
  /\ script_name = <<>>
  /\ dir_files = {}
  /\ script = Err(None)
  /\ fpc = "off"

OtherIdle == EnvIdle /\ prev_vars = NoVars /\ RunIdle /\ UrlIdle /\ FindIdle

\* the environment names a caller can activate
EnvNames == {<<"a">>, <<"b">>}

ExprInit ==
  /\ text \in BSeq(Alphabet, MaxLen)
  /\ tokens = <<>>
  /\ parsed = PErr("", 0)
  /\ active = {}
  /\ applied = FALSE
  /\ epc = "input"
  /\ MoldIdle
  /\ OtherIdle

\* compile(expr)
Compile ==
  /\ epc = "input"
  /\ tokens' = lex(text)
  /\ parsed' = compile(text)
  /\ epc' = "compiled"
  /\ UNCHANGED <<text, active, applied, moldVars, remoteVars, otherVars>>

\* ex.apply(&envs), for an expression that compiled
Apply ==
  /\ epc = "compiled"
  /\ parsed.ok
  /\ \E to \in SUBSET EnvNames :
       /\ active' = to
       /\ applied' = apply(parsed.e, to)
  /\ epc' = "applied"
  /\ UNCHANGED <<text, tokens, parsed, moldVars, remoteVars, otherVars>>

SpecExpr == ExprInit /\ [][Compile \/ Apply]_vars

MaxLex == 4

\* texts that also hold characters lex has no arm for, '!' and '.'
LexInit ==
  /\ text \in BSeq(NameChars \cup {"+", "|", "(", ")", " ", "!", "."}, MaxLex)
  /\ tokens = <<>>
  /\ parsed = PErr("", 0)
  /\ active = {}
  /\ applied = FALSE
  /\ epc = "input"
  /\ MoldIdle
  /\ OtherIdle

SpecLex == LexInit /\ [][Compile \/ Apply]_vars

\* ------------------------------------------------------------------ dependency resolution

RootDir == <<"root">>
ModuleUrl == "host/m.git"
ModulePath == Append(Append(RootDir, ".clones"), hash_url_ref(ModuleUrl, default_git_ref))

\* the names a deps list of the root moldfile can hold
DepNames == {<<"a">>, <<"b">>, <<"m", "a">>}
\* the names the command line can ask for
TargetNames == DepNames \cup {<<"m", "b">>}

\* every map from a subset of `keys` to a Command whose deps come from `lists`
Commands(owner, keys, lists) ==
  UNION { { [k \in present |-> Command(<<owner, k>>, d[k])] : d \in [present -> lists] }
          : present \in SUBSET keys }

\* the root moldfile: recipes a and b, and the module recipe m or no m
RootFiles ==
  { Moldfile(IF withModule
               THEN [k \in DOMAIN cmds \cup {"m"} |->
                       IF k = "m" THEN Module(ModuleUrl, default_git_ref, None) ELSE cmds[k]]
               ELSE cmds,
             Empty, <<>>)
    : cmds \in Commands("root", {"a", "b"}, BSeq(DepNames, MaxDeps)),
      withModule \in BOOLEAN }

\* the moldfile of the module: a with no dependency or b; b absent, plain, or
\* requiring a
ModuleFiles ==
  { Moldfile([k \in (IF db = None THEN {"a"} ELSE {"a", "b"}) |->
                Command(<<"m", k>>, IF k = "a" THEN da ELSE db[1])],
             Empty, <<>>)
    : da \in {<<>>, <<<<"b">>>>}, db \in {None, Some(<<>>), Some(<<<<"a">>>>)} }

DepsInit ==
  /\ ExprIdle
  /\ OtherIdle
  /\ root \in {open(RootDir, f) : f \in RootFiles}
  /\ disk \in {[p \in {ModulePath} |-> [n \in {"mold.yaml"} |-> f]] : f \in ModuleFiles}
  /\ targets = <<>>
  /\ taskdeps = <<>>
  /\ resolved = Err(<<>>)
  /\ task = Err(None)
  /\ outcome = "ok"
  /\ mpc = "opened"
  /\ RemoteIdle

\* mold.find_all_dependencies(&targets)
FindAllDependencies ==
  /\ mpc = "opened"
  /\ \E tgts \in BSeq(TargetNames, MaxTargets) :
       /\ extend(<<>>, tgts) = tgts
       /\ targets' = tgts
       /\ taskdeps' = [i \in 1..Len(tgts) |-> find_task_dependencies(root, disk, {}, tgts[i])]
       /\ resolved' = find_all_dependencies(root, disk, {}, tgts)
       /\ outcome' = resolved'.st
  /\ mpc' = "resolved"
  /\ UNCHANGED <<disk, root, task, exprVars, remoteVars, otherVars>>

\* mold.find_task(target_name, ..)
FindTask ==
  /\ mpc = "opened"
  /\ \E t \in TargetNames \cup {<<"m">>} :
       /\ targets' = <<t>>
       /\ task' = find_task(root, disk, t, mold_env_vars(root))
       /\ outcome' = task'.st
  /\ mpc' = "task"
  /\ UNCHANGED <<disk, root, taskdeps, resolved, exprVars, remoteVars, otherVars>>

SpecDeps == DepsInit /\ [][FindAllDependencies \/ FindTask]_vars

\* ------------------------------------------------------------------ include merging

ClonePath(url, ref_) == Append(Append(RootDir, ".clones"), hash_url_ref(url, ref_))

IX == Include("host/x.git", default_git_ref, None)
IY == Include("host/y.git", default_git_ref, None)
IZ == Include("host/z.git", "dev", None)
PathOf(include) == ClonePath(include.url, include.ref_)

\* a recipe as the moldfile of directory `dir` declares it under `key`
Declared(dir, key) == Command(<<dir, key>>, IF key = "build" THEN << <<"lint">> >> ELSE <<>>)

\* the moldfiles a directory can hold: any of the recipes test and build, with
\* or without a runtime sh, and the given includes
Files(dir, runtimes, includes) ==
  { Moldfile([k \in keys |-> Declared(dir, k)], [k \in rt |-> <<dir, k>>], inc)
    : keys \in SUBSET {"test", "build"}, rt \in runtimes, inc \in includes }

MergeInit ==
  /\ ExprIdle
  /\ OtherIdle
  /\ root \in {open(RootDir, f) :
                 f \in Files(RootDir, {{}, {"sh"}}, BSeq({IX, IY}, MaxIncludes))}
  /\ \E fx \in Files(PathOf(IX), {{}, {"sh"}}, {<<>>, <<IZ>>, <<IX>>}),
        fy \in Files(PathOf(IY), {{}, {"sh"}}, {<<>>}),
        fz \in Files(PathOf(IZ), {{}, {"sh"}}, {<<>>}),
        cloned \in {{IX, IY, IZ}, {IX, IZ}} :
       disk = [p \in {PathOf(i) : i \in cloned} |->
                 [n \in {"mold.yaml"} |->
                    IF p = PathOf(IX) THEN fx ELSE IF p = PathOf(IY) THEN fy ELSE fz]]
  /\ targets = <<>>
  /\ taskdeps = <<>>
  /\ resolved = Err(<<>>)
  /\ task = Err(None)
  /\ outcome = "ok"
  /\ mpc = "opened"
  /\ RemoteIdle

\* mold.process_includes()
ProcessIncludes ==
  /\ mpc = "opened"
  /\ LET merged == process_includes(root, disk, {}) IN
       /\ root' = merged.v
       /\ outcome' = merged.st
  /\ mpc' = "merged"
  /\ UNCHANGED <<disk, targets, taskdeps, resolved, task, exprVars, remoteVars, otherVars>>

SpecMerge == MergeInit /\ [][ProcessIncludes]_vars

\* ------------------------------------------------------------------ cloning

I1 == Include("host/x.git", default_git_ref, None)
I2 == Include("host/x.git", "dev", None)
I3 == Include("host/y.git", default_git_ref, None)

ModuleOf(include) == Module(include.url, include.ref_, include.file)

\* the files of a repository whose moldfile has the given recipes and includes
Repo(recipes, includes) == [n \in {"mold.yaml"} |-> Moldfile(recipes, Empty, includes)]

\* what the servers hold: x at master and at dev, each with no include or one;
\* y at master, with or without a module recipe m on x at master
Origins ==
  { [u \in {"host/x.git", "host/y.git"} |->
       IF u = "host/x.git"
         THEN [r \in {default_git_ref, "dev"} |->
                 Repo(Empty, IF r = default_git_ref THEN inc1 ELSE inc2)]
         ELSE [r \in {default_git_ref} |-> Repo(rec3, <<>>)]]
    : inc1 \in {<<>>, <<I1>>, <<I2>>, <<I3>>},
      inc2 \in {<<>>, <<I1>>, <<I3>>},
      rec3 \in {Empty, [k \in {"m"} |-> ModuleOf(I1)]} }

CloneInit ==
  /\ ExprIdle
  /\ OtherIdle
  /\ origin \in Origins
  /\ net \in {[u \in {"host/x.git", "host/y.git"} |->
                 IF u = "host/x.git" THEN forms ELSE {"https", "raw"}]
              : forms \in {{"https"}, {"raw"}, {}}}
  /\ root \in {open(RootDir, Moldfile(recipes, Empty, includes)) :
                 recipes \in {Empty} \cup {[k \in {"m"} |-> ModuleOf(i)] : i \in {I1, I3}},
                 includes \in BSeq({I1, I2, I3}, MaxIncludes)}
  /\ \E present \in SUBSET {I1, I2, I3} :
       disk = [p \in {PathOf(i) : i \in present} |->
                 LET i == CHOOSE i \in present : PathOf(i) = p
                     files == origin[i.url][i.ref_]
                 IN [n \in DOMAIN files \cup {".git"} |->
                       IF n = ".git" THEN i.url ELSE files[n]]]
  /\ clonelog = <<>>
  /\ checkouts = <<>>
  /\ targets = <<>>
  /\ taskdeps = <<>>
  /\ resolved = Err(<<>>)
  /\ task = Err(None)
  /\ outcome = "ok"
  /\ mpc = "opened"

\* mold.clone_all()
CloneAll ==
  /\ mpc = "opened"
  /\ LET done == clone_all(root, [disk |-> disk, clonelog |-> clonelog, checkouts |-> checkouts],
                           [origin |-> origin, net |-> net])
     IN /\ disk' = done.v.disk
        /\ clonelog' = done.v.clonelog
        /\ checkouts' = done.v.checkouts
        /\ outcome' = done.st
  /\ mpc' = "cloned"
  /\ UNCHANGED <<root, targets, taskdeps, resolved, task, origin, net, exprVars, otherVars>>

SpecClone == CloneInit /\ [][CloneAll]_vars

\* ------------------------------------------------------------------ conditional environments

MaxEnvs == 2

\* the keys an environments map can hold: four that compile and two that do not
EnvTests == {<<"a">>, <<"~", "a">>, <<"b">>, <<"*">>, <<"a", "+">>, <<"(", "a">>}

VarOf(k, v) == [x \in {k} |-> v]

\* the variables an environments entry can set
Overlays == {VarOf("K", "x"), VarOf("K", "y"), VarOf("J", "y"),
             extend_vars(VarOf("K", "x"), VarOf("J", "x"))}

\* the variables a recipe can set itself
OwnVars == {NoVars, VarOf("K", "o"), extend_vars(VarOf("K", "o"), VarOf("J", "o"))}

EnvMaps ==
  {m \in BSeq({EnvEntry(t, o) : t \in EnvTests, o \in Overlays}, MaxEnvs) :
     \A i, j \in 1..Len(m) : m[i].test = m[j].test => i = j}

EnvInit ==
  /\ ExprIdle
  /\ MoldIdle
  /\ subject \in {with_variables(Command(<<"env", "run">>, <<>>), own, m) :
                    own \in OwnVars, m \in EnvMaps}
  /\ envs = {}
  /\ actives = <<>>
  /\ varmap = NoVars
  /\ vpc = "input"
  /\ prev_vars = NoVars
  /\ RunIdle
  /\ UrlIdle
  /\ FindIdle

\* recipe.env_vars(&envs)
EnvVars ==
  /\ vpc = "input"
  /\ \E to \in SUBSET EnvNames :
       /\ envs' = to
       /\ actives' = active_envs(subject.environments, to)
       /\ varmap' = env_vars(subject, to)
  /\ vpc' = "done"
  /\ UNCHANGED <<subject, prev_vars, exprVars, moldVars, remoteVars, runVars, urlVars, findVars>>

SpecEnv == EnvInit /\ [][EnvVars]_vars

\* ------------------------------------------------------------------ variable layering

FooUrl == "host/foo.git"
BarUrl == "host/bar.git"
FooPath == ClonePath(FooUrl, default_git_ref)
BarPath == ClonePath(BarUrl, default_git_ref)

\* a variable map that sets none or one of the given names; the value, a
\* one-segment text, tells which declaration set it
OneOf(names, value) == {NoVars} \cup {VarOf(k, value) : k \in names}

\* the moldfile of the command line: a command run, a module foo, variables,
\* and an environments entry for `a` or none
LayerRootFiles ==
  { with_variables(
      Moldfile([k \in {"foo", "run"} |->
                  IF k = "foo"
                    THEN with_variables(Module(FooUrl, default_git_ref, None), mv, <<>>)
                    ELSE with_variables(Command(<<"root", "run">>, <<>>), rv, <<>>)],
               Empty, <<>>),
      fv, ev)
    : mv \in OneOf({"K", "MOLD_WORK_DIR"}, <<"root.foo">>),
      rv \in OneOf({"MOLD_WORK_DIR"}, <<"root.run">>),
      fv \in OneOf({"K", "MOLD_ROOT"}, <<"root">>),
      ev \in {<<>>, <<EnvEntry(<<"a">>, VarOf("MOLD_ROOT", <<"root.a">>))>>} }

\* the moldfile of module foo: a module bar, variables, and an environments
\* entry for every environment or none
LayerFooFiles ==
  { with_variables(
      Moldfile([k \in {"bar"} |->
                  with_variables(Module(BarUrl, default_git_ref, None), mv, <<>>)],
               Empty, <<>>),
      fv, ev)
    : mv \in OneOf({"K"}, <<"foo.bar">>),
      fv \in OneOf({"K", "MOLD_WORK_DIR"}, <<"foo">>),
      ev \in {<<>>, <<EnvEntry(<<"*">>, VarOf("K", <<"foo.*">>))>>} }

\* the moldfile of module bar: a command baz and variables
LayerBarFiles ==
  { with_variables(
      Moldfile([k \in {"baz"} |-> with_variables(Command(<<"bar", "baz">>, <<>>), rv, <<>>)],
               Empty, <<>>),
      fv, <<>>)
    : rv \in OneOf({"K", "MOLD_WORK_DIR", "MOLD_ROOT"}, <<"bar.baz">>),
      fv \in OneOf({"K"}, <<"bar">>) }

LayerTargets ==
  {<<"foo", "bar", "baz">>, <<"foo", "bar">>, <<"foo", "nope">>, <<"foo">>, <<"run">>}

LayerInit ==
  /\ ExprIdle
  /\ EnvIdle
  /\ RemoteIdle
  /\ root \in {[open(RootDir, f) EXCEPT !.envs = e] :
                 f \in LayerRootFiles, e \in {<<>>, << <<"a">> >>}}
  /\ disk \in {[p \in {FooPath} \cup present |->
                   [n \in {"mold.yaml"} |-> IF p = FooPath THEN ff ELSE fb]]
                : ff \in LayerFooFiles, fb \in LayerBarFiles,
                  present \in {{BarPath}, {}}}
  /\ targets = <<>>
  /\ taskdeps = <<>>
  /\ resolved = Err(<<>>)
  /\ task = Err(None)
  /\ outcome = "ok"
  /\ mpc = "opened"
  /\ prev_vars = NoVars
  /\ RunIdle
  /\ UrlIdle
  /\ FindIdle

\* mold.env_vars()
MoldEnvVars ==
  /\ mpc = "opened"
  /\ varmap' = mold_env_vars(root)
  /\ mpc' = "vars"
  /\ UNCHANGED <<disk, root, targets, taskdeps, resolved, task, outcome, prev_vars,
                 subject, envs, actives, vpc, exprVars, remoteVars, runVars, urlVars, findVars>>

\* mold.find_task(target_name, &prev_vars), the caller handing over the
\* variables of the moldfile, nothing, or a variable of its own
FindLayeredTask ==
  /\ mpc = "opened"
  /\ \E t \in LayerTargets,
        pv \in {mold_env_vars(root), NoVars, VarOf("K", <<"caller">>)} :
       /\ targets' = <<t>>
       /\ prev_vars' = pv
       /\ task' = find_task(root, disk, t, pv)
       /\ outcome' = task'.st
  /\ mpc' = "task"
  /\ UNCHANGED <<disk, root, taskdeps, resolved, envVars, exprVars, remoteVars, runVars,
                 urlVars, findVars>>

SpecLayer == LayerInit /\ [][MoldEnvVars \/ FindLayeredTask]_vars

\* ------------------------------------------------------------------ execution

MaxTasks == 3

\* the Tasks run can have collected: one with no command, and two commands
RunTasks == {from_args(args, None, RootDir) : args \in {<<>>, <<"x">>, <<"y">>}}

RunInit ==
  /\ ExprIdle
  /\ MoldIdle
  /\ EnvIdle
  /\ UrlIdle
  /\ FindIdle
  /\ prev_vars = NoVars
  /\ tasks \in BSeq(RunTasks, MaxTasks)
  /\ dry \in BOOLEAN
  /\ next = 1
  /\ ran = <<>>
  /\ rpc = "exec"

\* one turn of the loop of run: task.dry() prints, task.exec()? spawns the
\* command, waits for it and leaves run on Err
Exec ==
  /\ rpc = "exec"
  /\ next <= Len(tasks)
  /\ IF dry THEN /\ next' = next + 1
                 /\ UNCHANGED <<ran, rpc>>
     ELSE \E ending \in Endings :
       LET task_ == tasks[next]
           done == exec(task_, ending)
       IN /\ ran' = IF task_.args = <<>> THEN ran
                     ELSE Append(ran, [index |-> next, args |-> task_.args, ending |-> ending])
          /\ IF done.st = "ok" THEN next' = next + 1 /\ rpc' = rpc
             ELSE next' = next /\ rpc' = "failed"
  /\ UNCHANGED <<tasks, dry, exprVars, moldVars, remoteVars, envVars, prev_vars, urlVars, findVars>>

\* the loop of run is over: Ok(())
Finish ==
  /\ rpc = "exec"
  /\ next > Len(tasks)
  /\ rpc' = "done"
  /\ UNCHANGED <<tasks, dry, next, ran, exprVars, moldVars, remoteVars, envVars, prev_vars,
                 urlVars, findVars>>

SpecRun == RunInit /\ [][Exec \/ Finish]_vars

\* ------------------------------------------------------------------ main.rs: run, from the targets on

\* main.rs has functions of its own for what run calls. They are modelled for
\* top-level names (no '/'): the branch of a nested name goes through
\* find_group_file and Moldfile::open, which lib.rs no longer has. A Module
\* recipe stands for the Recipe::Group of main.rs.

\* find_all_dependencies and find_dependencies of main.rs. `stack` holds the
\* targets whose find_dependencies is running: entering one again never returns.
RECURSIVE run_find_all_dependencies(_, _, _, _, _), run_find_dependencies(_, _, _)

run_find_all_dependencies(data, stack, tgts, i, new_targets) ==
  IF i > Len(tgts) THEN Ok(new_targets)
  ELSE Only({
    IF found.st # "ok" THEN found
    ELSE run_find_all_dependencies(data, stack, tgts, i + 1,
                                   insert(extend(new_targets, found.v), tgts[i]))
    : found \in {run_find_dependencies(data, stack, tgts[i])} })

run_find_dependencies(data, stack, target) ==
  IF target \in stack THEN Diverge(<<>>)
  ELSE IF find_recipe(data, target[1]).st # "ok" THEN Err(<<>>)
  ELSE run_find_all_dependencies(data, stack \cup {target},
                                 deps(find_recipe(data, target[1]).v), 1, <<>>)

\* find_task of main.rs
run_find_task(data, target_name) ==
  LET recipe == find_recipe(data, target_name[1]) IN
    IF recipe.st # "ok" THEN Err(None)
    ELSE IF recipe.v.kind = "Module" THEN Err(None)
    ELSE Ok(from_args(recipe.v.command, data.data.variables, None))

\* the moldfile of run: any of the commands a (requiring nothing, b, or
\* itself) and b (requiring nothing or the unknown c), and the group g or none
MainFiles ==
  { Moldfile(IF withGroup
               THEN [k \in DOMAIN cmds \cup {"g"} |->
                       IF k = "g" THEN Module("host/x.git", default_git_ref, None) ELSE cmds[k]]
               ELSE cmds, Empty, <<>>)
    : cmds \in UNION { { [k \in present |->
                            Command(<<k>>, IF k = "a" THEN da ELSE db)]
                         : da \in {<<>>, << <<"b">> >>, << <<"a">> >>},
                           db \in {<<>>, << <<"c">> >>} }
                       : present \in SUBSET {"a", "b"} },
      withGroup \in BOOLEAN }

MainInit ==
  /\ ExprIdle
  /\ RemoteIdle
  /\ EnvIdle
  /\ UrlIdle
  /\ FindIdle
  /\ prev_vars = NoVars
  /\ disk = Empty
  /\ root \in {open(RootDir, f) : f \in MainFiles}
  /\ targets \in BSeq({<<"a">>, <<"b">>, <<"g">>}, MaxTargets + 1) \ {<<>>}
  /\ taskdeps = <<>>
  /\ resolved = Err(<<>>)
  /\ task = Err(None)
  /\ outcome = "ok"
  /\ mpc = "off"
  /\ tasks = <<>>
  /\ dry \in BOOLEAN
  /\ next = 1
  /\ ran = <<>>
  /\ rpc = "resolve"

\* let targets = find_all_dependencies(&args.file, &data, &targets_set)?;
RunResolve ==
  /\ rpc = "resolve"
  /\ resolved' = run_find_all_dependencies(root, {}, extend(<<>>, targets), 1, <<>>)
  /\ rpc' = IF resolved'.st = "ok" THEN "collect" ELSE "failed"
  /\ UNCHANGED <<disk, root, targets, taskdeps, task, outcome, mpc, tasks, dry, next, ran,
                 exprVars, remoteVars, envVars, prev_vars, urlVars, findVars>>

RunCollectSkips ==
  /\ rpc = "collect"
  /\ IF next > Len(resolved.v)
       THEN /\ rpc' = "exec"
            /\ next' = 1
            /\ UNCHANGED <<task, tasks>>
       ELSE /\ task' = run_find_task(root, resolved.v[next])
            /\ tasks' = IF task'.st = "ok" THEN Append(tasks, task'.v) ELSE tasks
            /\ next' = next + 1
            /\ rpc' = rpc
  /\ UNCHANGED <<disk, root, targets, taskdeps, resolved, outcome, mpc, dry, ran,
                 exprVars, remoteVars, envVars, prev_vars, urlVars, findVars>>

\* one turn of `for target_name in &targets { tasks.push(find_task(..)?) }`, or
\* the end of that loop
RunCollect ==
  /\ rpc = "collect"
  /\ IF next > Len(resolved.v)
       THEN /\ rpc' = "exec"
            /\ next' = 1
            /\ UNCHANGED <<task, tasks>>
       ELSE /\ task' = run_find_task(root, resolved.v[next])
            /\ IF task'.st = "ok"
                 THEN tasks' = Append(tasks, task'.v) /\ next' = next + 1 /\ rpc' = rpc
                 ELSE tasks' = tasks /\ next' = next /\ rpc' = "failed"
  /\ UNCHANGED <<disk, root, targets, taskdeps, resolved, outcome, mpc, dry, ran,
                 exprVars, remoteVars, envVars, prev_vars, urlVars, findVars>>

SpecMain == MainInit /\ [][RunResolve \/ RunCollect \/ Exec \/ Finish]_vars

\* ------------------------------------------------------------------ updating

\* mold.update_all()
UpdateAll ==
  /\ mpc = "opened"
  /\ \E done \in {update_all(root, [disk |-> disk, clonelog |-> clonelog,
                                    checkouts |-> checkouts],
                             [origin |-> origin, net |-> net])} :
       /\ disk' = done.v.fs.disk
       /\ checkouts' = done.v.fs.checkouts
       /\ outcome' = done.st
  /\ mpc' = "updated"
  /\ UNCHANGED <<root, targets, taskdeps, resolved, task, origin, net, clonelog, exprVars,
                 otherVars>>

\* a pass of update_all over what earlier runs cloned
SpecUpdate == CloneInit /\ [][UpdateAll]_vars

\* ------------------------------------------------------------------ remote strings

MaxText == 4
MaxPart == 2

\* the characters of a remote string: of a url, '#', '/', of a ref
TextChars == {"h", "#", "/", "d"}

\* the Remotes to_string is called on: a url without '#', a ref without '/',
\* and no file or a relative one
Remotes ==
  { Remote(url, ref_, file)
    : url \in BSeq({"h", "/"}, MaxPart),
      ref_ \in BSeq({"d", "#"}, MaxPart),
      file \in {None} \cup {Some(f) : f \in {f \in BSeq({"x", "/"}, MaxPart) :
                                                  f # <<>> /\ Head(f) # "/"}} }

RemoteInit ==
  /\ ExprIdle
  /\ MoldIdle
  /\ EnvIdle
  /\ RunIdle
  /\ FindIdle
  /\ prev_vars = NoVars
  /\ reparsed = NoRemote
  /\ \/ upc = "remote" /\ remote \in Remotes /\ shown = <<>>
     \/ upc = "shown" /\ remote = NoRemote /\ shown \in BSeq(TextChars, MaxText)

\* remote.to_string()
RemoteToString ==
  /\ upc = "remote"
  /\ shown' = remote_to_string(remote)
  /\ upc' = "shown"
  /\ UNCHANGED <<remote, reparsed, exprVars, moldVars, remoteVars, envVars, prev_vars, runVars, findVars>>

\* Remote::parse(text)
RemoteParse ==
  /\ upc = "shown"
  /\ reparsed' = remote_parse(shown)
  /\ upc' = "parsed"
  /\ UNCHANGED <<remote, shown, exprVars, moldVars, remoteVars, envVars, prev_vars, runVars, findVars>>

SpecRemote == RemoteInit /\ [][RemoteToString \/ RemoteParse]_vars

\* ------------------------------------------------------------------ lib.rs: Runtime::find

MaxExts == 2

\* PathBuf::set_extension on a file name split at its dots: the part after the
\* last dot is the extension and is replaced; a name without a dot gets one
set_extension(path, ext) ==
  LET stem == IF Len(path) > 1 THEN SubSeq(path, 1, Len(path) - 1) ELSE path
  IN IF ext = "" THEN stem ELSE Append(stem, ext)

\* for ext in &self.extensions { path.set_extension(ext); if path.is_file() { return Ok(path) } }
\* `path` is the one mutable PathBuf of find: each turn rewrites it
RECURSIVE runtime_find_loop(_, _, _, _)
runtime_find_loop(exts, i, path, files) ==
  IF i > Len(exts) THEN [found |-> FALSE, path |-> path]
  ELSE IF set_extension(path, exts[i]) \in files
       THEN [found |-> TRUE, path |-> set_extension(path, exts[i])]
       ELSE runtime_find_loop(exts, i + 1, set_extension(path, exts[i]), files)

\* Runtime::find(dir, name) in a directory holding `files`
runtime_find(exts, files, name) ==
  LET looped == runtime_find_loop(exts, 1, name, files)
  IN IF looped.found THEN Ok(looped.path)
     ELSE IF looped.path \in files THEN Ok(looped.path)
     ELSE Err(None)

FindInit ==
  /\ ExprIdle
  /\ MoldIdle
  /\ RemoteIdle
  /\ EnvIdle
  /\ RunIdle
  /\ UrlIdle
  /\ prev_vars = NoVars
  /\ extensions \in BSeq({"py", "sh"}, MaxExts)
  /\ script_name \in {<<"run">>, <<"run", "all">>}
  /\ dir_files \in SUBSET {<<"run">>, <<"run", "py">>, <<"run", "sh">>,
                           <<"run", "all">>, <<"run", "all", "py">>}
  /\ script = Err(None)
  /\ fpc = "input"

\* runtime.find(&search_dir, &target_name)
RuntimeFind ==
  /\ fpc = "input"
  /\ script' = runtime_find(extensions, dir_files, script_name)
  /\ fpc' = "done"
  /\ UNCHANGED <<extensions, script_name, dir_files, exprVars, moldVars, remoteVars,
                 envVars, prev_vars, runVars, urlVars>>

SpecFind == FindInit /\ [][RuntimeFind]_vars

\* ------------------------------------------------------------------ claims: expr.rs

\* the active-name sets on which an expression is true, by set algebra
RECURSIVE Sat(_)
Sat(e) ==
  CASE e.t = "And" -> Sat(e.l) \cap Sat(e.r)
    [] e.t = "Or" -> Sat(e.l) \cup Sat(e.r)
    [] e.t = "Not" -> (SUBSET EnvNames) \ Sat(e.x)
    [] e.t = "Group" -> Sat(e.x)
    [] e.t = "Atom" -> {S \in SUBSET EnvNames : e.name \in S}
    [] e.t = "Wild" -> SUBSET EnvNames

\* C8: apply evaluates And as conjunction, Or as disjunction, Not as negation,
\* Group as its content, Atom(name) as membership in the active set and Wild as
\* true; compile("*") and compile("?") are true on every set and compile("~a")
\* is true exactly when a is not active.
C8_ApplyEvaluates ==
  epc = "applied" =>
    /\ applied = (active \in Sat(parsed.e))
    /\ text \in {<<"*">>, <<"?">>} => applied
    /\ text = <<"~", "a">> => (applied = (<<"a">> \notin active))

C8_Witness ==
  /\ epc = "applied"
  /\ text = <<"~", "a">>
  /\ active = {<<"b">>}
  /\ applied

IsName(tk) == tk.t = "Name"

\* C9: '+' binds tighter than '|', so "x + y | z" is (x and y) or z on every
\* active set, and '~' negates only the atom that follows it.
C9_PlusBindsTighter ==
  epc = "applied" =>
    /\ ( /\ Len(tokens) = 5
         /\ IsName(tokens[1]) /\ tokens[2].t = "And" /\ IsName(tokens[3])
         /\ tokens[4].t = "Or" /\ IsName(tokens[5]) )
       => applied = ( \/ (tokens[1].name \in active /\ tokens[3].name \in active)
                      \/ tokens[5].name \in active )
    /\ ( /\ Len(tokens) = 4
         /\ tokens[1].t = "Not" /\ IsName(tokens[2]) /\ tokens[3].t \in {"And", "Or"}
         /\ IsName(tokens[4]) )
       => applied = IF tokens[3].t = "And"
                      THEN tokens[2].name \notin active /\ tokens[4].name \in active
                      ELSE tokens[2].name \notin active \/ tokens[4].name \in active

\* the token streams derivable from the grammar
\*   or := and ('|' or)?   and := not ('+' and)?
\*   not := '~' atom | atom   atom := name | '*' | '?' | '(' or ')'
RECURSIVE InOr(_), InAnd(_), InNot(_), InAtom(_)
InAtom(s) ==
  \/ Len(s) = 1 /\ s[1].t \in {"Name", "Wild"}
  \/ Len(s) >= 3 /\ s[1].t = "Pal" /\ s[Len(s)].t = "Par" /\ InOr(SubSeq(s, 2, Len(s) - 1))
InNot(s) == InAtom(s) \/ (Len(s) >= 2 /\ s[1].t = "Not" /\ InAtom(Tail(s)))
InAnd(s) ==
  \/ InNot(s)
  \/ \E i \in 2..(Len(s) - 1) :
       s[i].t = "And" /\ InNot(SubSeq(s, 1, i - 1)) /\ InAnd(SubSeq(s, i + 1, Len(s)))
InOr(s) ==
  \/ InAnd(s)
  \/ \E i \in 2..(Len(s) - 1) :
       s[i].t = "Or" /\ InAnd(SubSeq(s, 1, i - 1)) /\ InOr(SubSeq(s, i + 1, Len(s)))

Count(s, t) == Cardinality({i \in 1..Len(s) : s[i].t = t})

\* the stream ends where an atom is required
EndsBeforeAtom(s) == Len(s) = 0 \/ s[Len(s)].t \in {"And", "Or", "Not", "Pal"}
\* an open parenthesis is never closed
Unclosed(s) == Count(s, "Pal") > Count(s, "Par")
\* tokens remain after a complete expression
Trailing(s) ==
  \E k \in 1..(Len(s) - 1) : InOr(SubSeq(s, 1, k)) /\ s[k + 1].t \notin {"And", "Or"}

\* C10: compile fails when the token stream ends where an atom is required
\* ("a +", ""), when an open parenthesis is not closed ("(a") and when tokens
\* remain after a complete expression ("a b"); it succeeds on every token stream
\* derivable from the grammar.
C10_CompileRejects ==
  epc # "input" =>
    /\ InOr(tokens) => parsed.ok
    /\ EndsBeforeAtom(tokens) => ~parsed.ok
    /\ Unclosed(tokens) => ~parsed.ok
    /\ Trailing(tokens) => ~parsed.ok
    /\ text \in {<<"a", " ", "+">>, <<>>, <<"(", "a">>, <<"a", " ", "b">>} => ~parsed.ok

C10_Witness ==
  /\ epc = "compiled"
  /\ text = <<"a", " ", "b">>
  /\ Trailing(tokens)
  /\ ~parsed.ok

\* ------------------------------------------------------------------ claims: dependencies

Range(f) == {f[i] : i \in DOMAIN f}

\* the name leads to a recipe: through module recipes for a qualified name
RECURSIVE Resolves(_, _, _)
Resolves(self, dsk, name) ==
  IF Len(name) > 1 THEN
    LET module == open_module(self, dsk, Head(name)) IN
      module.st = "ok" /\ Resolves(module.v, dsk, Tail(name))
  ELSE name[1] \in DOMAIN self.data.recipes

\* the deps edges that leave a name, in the namespace of `self`
RECURSIVE DirectDeps(_, _, _)
DirectDeps(self, dsk, name) ==
  IF Len(name) > 1 THEN
    LET module == open_module(self, dsk, Head(name)) IN
      IF module.st # "ok" THEN {}
      ELSE {<<Head(name)>> \o d : d \in DirectDeps(module.v, dsk, Tail(name))}
  ELSE IF name[1] \in DOMAIN self.data.recipes
    THEN Range(deps(self.data.recipes[name[1]])) ELSE {}

\* the names reachable from a set of names through deps edges, the set included
RECURSIVE Reach(_, _, _)
Reach(self, dsk, S) ==
  LET T == S \cup UNION {DirectDeps(self, dsk, n) : n \in S} IN
    IF T = S THEN S ELSE Reach(self, dsk, T)

TransDeps(self, dsk, name) == Reach(self, dsk, DirectDeps(self, dsk, name))

CycleReachable == \E n \in Reach(root, disk, Range(targets)) : n \in TransDeps(root, disk, n)
MissingReachable == \E n \in Reach(root, disk, Range(targets)) : ~Resolves(root, disk, n)

\* C2: in the ordered set find_all_dependencies returns, every recipe comes
\* after all of its direct and transitive dependencies, qualified names
\* included; a requiring b resolves to [b, a].
C2_DepsBeforeDependents ==
  (mpc = "resolved" /\ resolved.st = "ok") =>
    /\ \A i, j \in 1..Len(resolved.v) :
         resolved.v[j] \in TransDeps(root, disk, resolved.v[i]) => j < i
    /\ ( /\ targets = << <<"a">> >>
         /\ "a" \in DOMAIN root.data.recipes /\ "b" \in DOMAIN root.data.recipes
         /\ root.data.recipes["a"].deps = << <<"b">> >>
         /\ root.data.recipes["b"].deps = <<>> )
       => resolved.v = << <<"b">>, <<"a">> >>

C2_Witness ==
  /\ mpc = "resolved"
  /\ resolved = Ok(<< <<"m", "b">>, <<"m", "a">>, <<"b">>, <<"a">> >>)

\* C3: for an acyclic recipe set in which every name resolves,
\* find_all_dependencies returns the targets and every recipe reachable from
\* them through deps edges, each once and nothing else.
C3_ClosureContent ==
  (mpc = "resolved" /\ ~CycleReachable /\ ~MissingReachable) =>
    /\ resolved.st = "ok"
    /\ Range(resolved.v) = Reach(root, disk, Range(targets))
    /\ Cardinality(Range(resolved.v)) = Len(resolved.v)

C3_Witness ==
  /\ mpc = "resolved"
  /\ ~CycleReachable /\ ~MissingReachable
  /\ targets = << <<"a">> >>
  /\ Len(resolved.v) = 4
  /\ root.data.recipes["a"].deps = << <<"b">>, <<"b">> >>

\* C4 as stated: find_all_dependencies returns Err whenever a target or a
\* transitively reached dependency is absent, and find_task returns Err for an
\* absent recipe name.
C4_LookupFailureIsErr ==
  /\ (mpc = "resolved" /\ MissingReachable) => (resolved.st = "err" /\ resolved.v = <<>>)
  /\ (mpc = "task" /\ ~Resolves(root, disk, targets[1])) => task.st = "err"

\* C4 amended: with an absent name reachable find_all_dependencies never
\* returns Ok; it returns Err with no partial result unless the recursion enters
\* a dependency cycle before it looks the absent name up, and then it does not
\* return at all. find_task returns Err for an absent recipe name.
C4_LookupFailureNeverOk ==
  /\ (mpc = "resolved" /\ MissingReachable) =>
       /\ resolved.st # "ok"
       /\ resolved.v = <<>>
       /\ resolved.st = "diverge" => CycleReachable
       /\ ~CycleReachable => resolved.st = "err"
  /\ (mpc = "task" /\ ~Resolves(root, disk, targets[1])) => task.st = "err"

C4_Witness ==
  /\ mpc = "resolved"
  /\ targets = << <<"a">> >>
  /\ Resolves(root, disk, <<"a">>)
  /\ MissingReachable /\ CycleReachable
  /\ resolved.st = "err"

\* C5: for a target m/r find_task_dependencies opens module m and returns the
\* transitive dependencies of r inside m, each re-qualified as m/<dep>: every
\* returned name carries the prefix m/ and names a recipe of the module.
C5_Requalified ==
  mpc = "resolved" =>
    \A i \in 1..Len(targets) :
      (Len(targets[i]) > 1 /\ taskdeps[i].st = "ok") =>
        LET m == Head(targets[i])
            module == open_module(root, disk, m)
        IN /\ module.st = "ok"
           /\ \A x \in Range(taskdeps[i].v) :
                Head(x) = m /\ Resolves(module.v, disk, Tail(x))
           /\ Range(taskdeps[i].v) =
                {<<m>> \o d : d \in TransDeps(module.v, disk, Tail(targets[i]))}

C5_Witness ==
  /\ mpc = "resolved"
  /\ targets = << <<"m", "a">> >>
  /\ taskdeps[1] = Ok(<< <<"m", "b">> >>)

\* ------------------------------------------------------------------ claims: include merging

\* C1: process_includes keeps, for every recipe name the Mold's own moldfile
\* defines, the parent's own definition unchanged, whatever the moldfiles it
\* includes (directly or through nested includes) define under that name.
C1_ParentWins ==
  [][(mpc = "opened" /\ mpc' = "merged" /\ outcome' = "ok") =>
       \A k \in DOMAIN root.data.recipes :
         k \in DOMAIN root'.data.recipes /\ root'.data.recipes[k] = root.data.recipes[k]]_vars

C1_Witness ==
  /\ mpc = "merged" /\ outcome = "ok"
  /\ root.data.includes = <<IX, IY>>
  /\ disk[PathOf(IX)]["mold.yaml"].includes = <<IZ>>
  /\ "test" \in DOMAIN disk[PathOf(IY)]["mold.yaml"].recipes
  /\ "test" \in DOMAIN disk[PathOf(IZ)]["mold.yaml"].recipes
  /\ "test" \in DOMAIN root.data.recipes
  /\ root.data.recipes["test"] = Declared(RootDir, "test")

\* the recipes process_includes adopted from an include
Adopted == {k \in DOMAIN root.data.recipes : root.data.recipes[k].search_dir # None}
\* the declaration an adopted recipe was copied from
DeclarationOf(recipe) == disk[recipe.command[1]]["mold.yaml"].recipes[recipe.command[2]]
\* the name x is the name y with a non-empty prefix in front
HasPrefix(x, y) == Len(x) > Len(y) /\ SubSeq(x, Len(x) - Len(y) + 1, Len(x)) = y

ClonesOf(path) == {i \in 1..Len(clonelog) : clonelog[i].path = path}

\* every remote::clone went to the folder of its (url, ref) under the clone_dir
\* of the root, and never to a folder that existed
SharedFolders ==
  \A i \in 1..Len(clonelog) :
    /\ \E ref_ \in {default_git_ref, "dev"} :
         clonelog[i].path = Append(root.clone_dir, hash_url_ref(clonelog[i].url, ref_))
    /\ ~clonelog[i].existed

\* C7 as stated: in one clone_all pass identical (url, ref) resolve to the same
\* folder under the shared clone_dir, remote::clone is invoked at most once for a
\* folder, and a folder that exists is never fetched.
C7_FetchedAtMostOnce ==
  mpc = "cloned" =>
    /\ SharedFolders
    /\ \A i \in 1..Len(clonelog) : Cardinality(ClonesOf(clonelog[i].path)) <= 1

\* C7 amended: remote::clone is invoked for a folder in at most one clone step:
\* once with the https:// form of the url and, only when that invocation failed,
\* once more with the url as written; at most one invocation succeeds, and a
\* folder that exists is never fetched.
C7_FetchedInOneStep ==
  mpc = "cloned" =>
    /\ SharedFolders
    /\ \A i \in 1..Len(clonelog) :
         /\ Cardinality({j \in ClonesOf(clonelog[i].path) : clonelog[j].form = clonelog[i].form}) = 1
         /\ Cardinality({j \in ClonesOf(clonelog[i].path) : clonelog[j].ok}) <= 1
         /\ clonelog[i].form = "raw" =>
              /\ i > 1
              /\ clonelog[i - 1].path = clonelog[i].path
              /\ clonelog[i - 1].form = "https"
              /\ ~clonelog[i - 1].ok

C7_Witness ==
  /\ mpc = "cloned" /\ outcome = "ok"
  /\ root.data.includes = <<I1, I1>>
  /\ "m" \in DOMAIN root.data.recipes /\ root.data.recipes["m"] = ModuleOf(I3)
  /\ origin["host/y.git"][default_git_ref]["mold.yaml"].recipes # Empty
  /\ Cardinality(ClonesOf(PathOf(I1))) = 1
  /\ PathOf(I3) \in DOMAIN disk

\* ------------------------------------------------------------------ claims: conditional environments

\* the test compiles and is true on the active names
TrueOn(test, to) == compile(test).ok /\ to \in Sat(compile(test).e)

\* the entries of the subject's environments map that a key selects
Entries == subject.environments
ActiveEntries == {i \in 1..Len(Entries) : TrueOn(Entries[i].test, envs)}
Malformed == {i \in 1..Len(Entries) : ~compile(Entries[i].test).ok}
Setting(k) == {i \in ActiveEntries : k \in DOMAIN Entries[i].variables}
Last(S) == CHOOSE i \in S : \A j \in S : j <= i

\* the variable map the overlay rule prescribes from a set of entries
Prescribed(own, setting(_)) ==
  [k \in DOMAIN own \cup {k \in {"K", "J"} : setting(k) # {}} |->
     IF setting(k) = {} THEN own[k] ELSE Entries[Last(setting(k))].variables[k]]

\* C11: a key of an environments map that fails to compile does not abort
\* active_envs: that entry is inactive, its overlay is never applied, and every
\* other entry is evaluated and applied as if the malformed entry were absent.
C11_MalformedKeyNonFatal ==
  vpc = "done" =>
    LET others == SelectSeq(Entries, LAMBDA e : compile(e.test).ok) IN
      /\ \A i \in Malformed : Entries[i].test \notin Range(actives)
      /\ Range(actives) = {Entries[i].test : i \in ActiveEntries}
      /\ actives = active_envs(others, envs)
      /\ varmap = env_vars(with_variables(subject, subject.variables, others), envs)
      /\ varmap = Prescribed(subject.variables, LAMBDA k : Setting(k) \ Malformed)

C11_Witness ==
  /\ vpc = "done"
  /\ Len(Entries) = 2
  /\ Entries[1] = EnvEntry(<<"a", "+">>, VarOf("K", "x"))
  /\ Entries[2] = EnvEntry(<<"a">>, VarOf("J", "y"))
  /\ envs = {<<"a">>}
  /\ actives = << <<"a">> >>
  /\ varmap = VarOf("J", "y")

\* C12: Recipe::env_vars(envs) is the recipe's own variable map overlaid with
\* the variables of every environments entry whose key is true on envs, in
\* declaration order: of two active entries that set a key the later-declared
\* one gives the value, and an entry whose key is false contributes nothing.
C12_OverlayInDeclarationOrder ==
  vpc = "done" => varmap = Prescribed(subject.variables, Setting)

C12_Witness ==
  /\ vpc = "done"
  /\ subject.variables = VarOf("K", "o")
  /\ Len(Entries) = 2
  /\ Entries[1] = EnvEntry(<<"*">>, VarOf("K", "x"))
  /\ Entries[2] = EnvEntry(<<"a">>, VarOf("K", "y"))
  /\ envs = {<<"a">>}
  /\ varmap = VarOf("K", "y")

\* ------------------------------------------------------------------ claims: variable layering

MoldReserved == {"MOLD_ROOT", "MOLD_FILE", "MOLD_DIR", "MOLD_CLONE_DIR", "MOLD_SCRIPT_DIR"}
TaskReserved == {"MOLD_MODULE_ROOT", "MOLD_SEARCH_DIR", "MOLD_WORK_DIR"}

\* the value Mold::env_vars synthesizes for a reserved name
Synthesized(self, k) ==
  CASE k = "MOLD_ROOT" -> self.root_dir
    [] k = "MOLD_FILE" -> self.file
    [] k = "MOLD_DIR" -> self.dir
    [] k = "MOLD_CLONE_DIR" -> self.clone_dir
    [] k = "MOLD_SCRIPT_DIR" -> self.script_dir

\* the Molds find_task goes through for the target: the root, then one module
\* for every segment but the last
RECURSIVE MoldPath(_, _)
MoldPath(self, name) ==
  IF Len(name) <= 1 THEN <<self>>
  ELSE <<self>> \o MoldPath(open_module(self, disk, Head(name)).v, Tail(name))

\* the recipes find_task reads on the way: the module recipes, then the recipe
RecipePath(name) ==
  LET molds == MoldPath(root, name) IN
    [i \in 1..Len(molds) |-> molds[i].data.recipes[name[i]]]

TaskBuilt == mpc = "task" /\ task.st = "ok" /\ task.v # None

\* C13: in the map Mold::env_vars returns and in every Task find_task builds,
\* each reserved variable holds the synthesized value, whatever the moldfile
\* variables, the active environments, the recipe variables or the module
\* recipe variables define under the same name.
C13_ReservedAlwaysWin ==
  /\ mpc = "vars" => \A k \in MoldReserved : varmap[k] = Synthesized(root, k)
  /\ TaskBuilt =>
       LET molds == MoldPath(root, targets[1])
           leaf == molds[Len(molds)]
           vars_ == task.v[1].vars[1]
       IN /\ vars_["MOLD_MODULE_ROOT"] = leaf.root_dir
          /\ vars_["MOLD_SEARCH_DIR"] = leaf.dir
          /\ vars_["MOLD_WORK_DIR"] = leaf.root_dir
          /\ \A k \in MoldReserved \cap DOMAIN vars_ :
               \E i \in 1..Len(molds) : vars_[k] = Synthesized(molds[i], k)

\* the first of the layers that defines the key
RECURSIVE FirstDefining(_, _)
FirstDefining(layers, k) ==
  IF layers = <<>> THEN None
  ELSE IF k \in DOMAIN Head(layers) THEN Some(Head(layers)[k])
  ELSE FirstDefining(Tail(layers), k)

\* C14: when find_task resolves foo/bar/baz, every variable that no recipe
\* sets (neither the module recipes, nor baz, nor the three variables find_task
\* synthesizes for baz) has in the Task the value of the outermost layer that
\* defines it: the caller's prev_vars, then foo's moldfile, then bar's.
C14_OuterOverridesInner ==
  (TaskBuilt /\ targets[1] = <<"foo", "bar", "baz">>) =>
    LET molds == MoldPath(root, targets[1])
        recipes == RecipePath(targets[1])
        layers == <<prev_vars, mold_env_vars(molds[2]), mold_env_vars(molds[3])>>
        by_recipe == TaskReserved \cup
                     UNION {DOMAIN env_vars(recipes[i], as_slice(root.envs)) : i \in 1..3}
        vars_ == task.v[1].vars[1]
    IN \A k \in (DOMAIN vars_ \cup UNION {DOMAIN layers[i] : i \in 1..3}) \ by_recipe :
         /\ k \in DOMAIN vars_
         /\ Some(vars_[k]) = FirstDefining(layers, k)

C14_Witness ==
  /\ TaskBuilt /\ targets[1] = <<"foo", "bar", "baz">>
  /\ prev_vars = NoVars
  /\ disk[FooPath]["mold.yaml"].variables = VarOf("K", <<"foo">>)
  /\ disk[FooPath]["mold.yaml"].environments = <<>>
  /\ disk[BarPath]["mold.yaml"].variables = VarOf("K", <<"bar">>)
  /\ task.v[1].vars[1]["K"] = <<"foo">>
  /\ task.v[1].vars[1]["MOLD_ROOT"] = FooPath

\* ------------------------------------------------------------------ claims: execution

\* the commands spawned are those of the tasks before the position of the loop,
\* in the order of the list, and only the last of them can have failed
RanInOrder ==
  /\ \A i \in 1..Len(ran) : ran[i].index \in 1..Len(tasks) /\ ran[i].args = tasks[ran[i].index].args
  /\ \A i, j \in 1..Len(ran) : i < j => ran[i].index < ran[j].index
  /\ \A i \in 1..(Len(ran) - 1) : ran[i].ending = "exit_zero"
  /\ dry => ran = <<>>
  /\ ~dry => {ran[i].index : i \in 1..Len(ran)} =
               {k \in 1..Len(tasks) : tasks[k].args # <<>> /\
                                       (k < next \/ (k = next /\ rpc = "failed"))}
  /\ rpc = "failed" <=> (ran # <<>> /\ ran[Len(ran)].ending # "exit_zero")
  /\ rpc = "failed" => ran[Len(ran)].index = next
  /\ rpc = "done" => next = Len(tasks) + 1

\* C15: the tasks are executed one at a time in the order of the resolved list;
\* as soon as one fails (spawn failure or non-zero exit) no later task is
\* executed, and what already ran stays as it is.
C15_FailFastInOrder ==
  /\ [](rpc # "off" => RanInOrder)
  /\ [][/\ Len(ran') <= Len(ran) + 1
         /\ SubSeq(ran', 1, Len(ran)) = ran
         /\ rpc = "failed" => (ran' = ran /\ rpc' = "failed")]_vars

C15_Witness ==
  /\ rpc = "failed"
  /\ Len(tasks) = 3
  /\ tasks[3].args # <<>>
  /\ Len(ran) = 2
  /\ ran[1].ending = "exit_zero"
  /\ ran[2].ending = "exit_nonzero"

\* ------------------------------------------------------------------ claims: updating

\* the invocations of remote::checkout for one folder
CheckoutsOf(path) == {i \in 1..Len(checkouts) : checkouts[i].path = path}

\* the folders the Module recipes and Includes of a moldfile resolve to
FoldersOf(data) ==
  {Append(root.clone_dir, folder_name(data.recipes[k])) :
     k \in {k \in DOMAIN data.recipes : data.recipes[k].kind = "Module"}}
  \cup {Append(root.clone_dir, folder_name(data.includes[i])) : i \in 1..Len(data.includes)}

\* C16: in one update_all pass remote::checkout is invoked at most once for
\* every folder, however many Module recipes and Includes of the tree resolve
\* to it, and only for folders that exist.
C16_CheckedOutAtMostOnce ==
  mpc = "updated" =>
    \A i \in 1..Len(checkouts) :
      /\ Cardinality(CheckoutsOf(checkouts[i].path)) = 1
      /\ checkouts[i].path \in DOMAIN disk

C16_Witness ==
  /\ mpc = "updated" /\ outcome = "ok"
  /\ root.data.includes = <<I3, I1>>
  /\ {PathOf(I1), PathOf(I3)} \subseteq DOMAIN disk
  /\ PathOf(I1) \in FoldersOf(disk[PathOf(I3)]["mold.yaml"])
  /\ "m" \in DOMAIN root.data.recipes /\ root.data.recipes["m"] = ModuleOf(I1)
  /\ Len(checkouts) = 2
  /\ Cardinality(CheckoutsOf(PathOf(I1))) = 1

\* ------------------------------------------------------------------ claims: search_dir

\* the directory of the moldfile that declared the recipe
DeclaredIn(recipe) == recipe.command[1]

\* C17: after process_includes every recipe adopted from an include, directly
\* or through nested includes, has search_dir equal to the directory of the
\* moldfile that declared it, and the recipes the root moldfile declares keep
\* search_dir unset.
C17_SearchDirProvenance ==
  (mpc = "merged" /\ outcome = "ok") =>
    \A k \in DOMAIN root.data.recipes :
      LET recipe == root.data.recipes[k] IN
        IF DeclaredIn(recipe) = RootDir THEN recipe.search_dir = None
        ELSE recipe.search_dir = Some(DeclaredIn(recipe))

\* ------------------------------------------------------------------ claims: remote strings

\* the Remotes C18 speaks of
RoundTrips(r) ==
  /\ "#" \notin Range(r.url)
  /\ r.ref_ # <<>> /\ "/" \notin Range(r.ref_)
  /\ r.file = None \/ (r.file[1] # <<>> /\ Head(r.file[1]) # "/")

\* C18 as stated: for every Remote r whose url has no '#', whose ref is
\* non-empty and has no '/', and whose file is absent or a non-empty relative
\* path, Remote::parse(r.to_string()) has r's url, ref and file.
C18_RoundTrip ==
  (upc = "parsed" /\ RoundTrips(remote)) =>
    /\ shown = remote_to_string(remote)
    /\ reparsed.url = remote.url
    /\ reparsed.ref_ = remote.ref_
    /\ reparsed.file = remote.file

\* C18 amended: the same for every such Remote whose ref does not start with
\* '#'; url h/, ref d, file x comes back as it was.
C18_RoundTripPlainRef ==
  (upc = "parsed" /\ RoundTrips(remote) /\ Head(remote.ref_) # "#") =>
    /\ shown = remote_to_string(remote)
    /\ reparsed.url = remote.url
    /\ reparsed.ref_ = remote.ref_
    /\ reparsed.file = remote.file

C18_Witness ==
  /\ upc = "parsed"
  /\ remote = Remote(<<"h", "/">>, <<"d">>, Some(<<"x">>))
  /\ shown = <<"h", "/", "#", "d", "/", "x">>
  /\ reparsed = remote

\* the text has no ref part: no '#', or '#' followed by '/' or by nothing
RefOmitted(text_) ==
  LET idx == find(text_, "#") IN
    \/ idx = 0
    \/ idx = Len(text_)
    \/ text_[idx + 1] = "/"

\* C19: parsing url[#[ref][/file]] gives ref "master" whenever the ref part is
\* omitted (no '#', '#' directly followed by '/file', '#' followed by nothing),
\* and parse never produces an empty ref; Include::parse does the same.
C19_DefaultRef ==
  upc = "parsed" =>
    /\ reparsed.ref_ # <<>>
    /\ include_parse(shown).ref_ # <<>>
    /\ RefOmitted(shown) =>
         (reparsed.ref_ = Master /\ include_parse(shown).ref_ = Master)

\* ------------------------------------------------------------------ claims: termination

\* C20: when every name resolves, find_all_dependencies returns if and only if
\* no dependency cycle is reachable from the targets; with a reachable cycle,
\* a recipe that lists itself in deps included, the recursion never returns.
C20_TerminatesIffAcyclic ==
  (mpc = "resolved" /\ ~MissingReachable) =>
    /\ resolved.st \in {"ok", "diverge"}
    /\ resolved.st = "diverge" <=> CycleReachable
    /\ ( /\ targets = << <<"a">> >>
         /\ <<"a">> \in Range(root.data.recipes["a"].deps) )
       => resolved.st = "diverge"

C20_Witness ==
  /\ mpc = "resolved"
  /\ ~MissingReachable
  /\ targets = << <<"m", "a">> >>
  /\ TransDeps(root, disk, <<"m", "a">>) = {<<"m", "a">>, <<"m", "b">>}
  /\ resolved.st = "diverge"

\* ------------------------------------------------------------------ claims: module recipes

\* the recipe a name leads to and the Mold that declares it, through the
\* modules of a qualified name; None when a segment is absent or does not open
RECURSIVE LeadsTo(_, _)
LeadsTo(self, name) ==
  IF Len(name) > 1 THEN
    LET module == open_module(self, disk, Head(name)) IN
      IF module.st # "ok" THEN None ELSE LeadsTo(module.v, Tail(name))
  ELSE IF name[1] \in DOMAIN self.data.recipes
    THEN Some([mold |-> self, key |-> name[1], recipe |-> self.data.recipes[name[1]]])
  ELSE None

ModuleTarget ==
  /\ mpc = "task"
  /\ LeadsTo(root, targets[1]) # None
  /\ LeadsTo(root, targets[1])[1].recipe.kind = "Module"

\* C21: find_task on a name that leads to a Module recipe, directly or through
\* other modules, never returns a Task: it returns Ok(None) when the module
\* opens (its recipes are then listed) and the error of open_module otherwise.
C21_ModuleNotExecutable ==
  ModuleTarget =>
    LET at == LeadsTo(root, targets[1])[1] IN
      /\ ~(task.st = "ok" /\ task.v # None)
      /\ task = IF open_module(at.mold, disk, at.key).st = "ok" THEN Ok(None) ELSE Err(None)

C21_Witness ==
  /\ ModuleTarget
  /\ targets[1] = <<"foo", "bar">>
  /\ BarPath \in DOMAIN disk
  /\ task = Ok(None)

\* ------------------------------------------------------------------ claims: tokenizer

\* the characters lex makes a token of, alone or as part of a name
Recognized == NameChars \cup {"+", "|", "~", "*", "?", "(", ")"}

\* the text with every other character replaced by a space
Blanked(s) == [i \in 1..Len(s) |-> IF s[i] \in Recognized THEN s[i] ELSE " "]

\* C22: compile gives for every text the result it gives for the text with
\* each unrecognized character replaced by a space, the same tree or the same
\* failure; an unrecognized character between two name characters ends one
\* Name token and the next character starts another.
C22_UnrecognizedIsBlank ==
  epc # "input" =>
    /\ tokens = lex(Blanked(text))
    /\ parsed = compile(Blanked(text))
    /\ \A i \in 2..(Len(text) - 1) :
         (text[i] \notin Recognized /\ text[i - 1] \in NameChars /\ text[i + 1] \in NameChars) =>
           LET before == lex(SubSeq(text, 1, i - 1))
               after == lex(SubSeq(text, i + 1, Len(text)))
           IN /\ tokens = before \o after
              /\ before[Len(before)].t = "Name"
              /\ after[1].t = "Name"

C22_Witness ==
  /\ epc = "compiled"
  /\ text = <<"a", "!", "b">>
  /\ tokens = <<TokName(<<"a">>), TokName(<<"b">>)>>
  /\ parsed = compile(<<"a", " ", "b">>)

\* ------------------------------------------------------------------ claims: update termination

\* C23: update_all returns, Ok or Err, for every set of cloned folders, also
\* when the moldfiles of the folders name each other or themselves in module
\* recipes and includes.
C23_UpdateTerminates == mpc = "updated" => outcome # "diverge"


\* ------------------------------------------------------------------ claims: script discovery

\* dir/name followed by ".ext"
WithExt(name, ext) == Append(name, ext)

\* the extensions, by position, whose file dir/name.ext exists
Matching == {i \in 1..Len(extensions) : WithExt(script_name, extensions[i]) \in dir_files}

\* C24: Runtime::find returns dir/name with the first extension, in declared
\* order, for which a file exists; when no extension matches it accepts an
\* existing file dir/name; otherwise it fails
C24_ScriptDiscovery ==
  fpc = "done" =>
    script = IF Matching # {}
             THEN Ok(WithExt(script_name, extensions[CHOOSE i \in Matching : \A j \in Matching : i <= j]))
             ELSE IF script_name \in dir_files THEN Ok(script_name)
             ELSE Err(None)


\* ------------------------------------------------------------------ claims: include precedence

\* the directories of the moldfiles a list of includes brings in, depth-first
\* in declaration order: each include, then what it includes, then the next
RECURSIVE IncludeOrder(_)
IncludeOrder(includes) ==
  IF includes = <<>> THEN <<>>
  ELSE <<PathOf(Head(includes))>>
         \o IncludeOrder(disk[PathOf(Head(includes))]["mold.yaml"].includes)
         \o IncludeOrder(Tail(includes))

\* the first directory of the order whose moldfile has `key` in `field`
FirstWith(order, field, key) ==
  LET has == {i \in 1..Len(order) : key \in DOMAIN disk[order[i]]["mold.yaml"][field]}
  IN IF has = {} THEN None ELSE Some(order[CHOOSE i \in has : \A j \in has : i <= j])

\* C25: a recipe or runtime name defined by included moldfiles and not by the
\* parent ends up, after process_includes, with the definition of the first
\* moldfile in depth-first declaration order that defines it: an include before
\* its nested includes, and those before every later sibling
C25_IncludePrecedence ==
  [][(mpc = "opened" /\ mpc' = "merged" /\ outcome' = "ok") =>
       LET order == IncludeOrder(root.data.includes) IN
         /\ \A k \in {"test", "build"} \ DOMAIN root.data.recipes :
              LET from == FirstWith(order, "recipes", k) IN
                IF from = None THEN k \notin DOMAIN root'.data.recipes
                ELSE /\ k \in DOMAIN root'.data.recipes
                     /\ root'.data.recipes[k].command = <<from[1], k>>
         /\ \A k \in {"sh"} \ DOMAIN root.data.runtimes :
              LET from == FirstWith(order, "runtimes", k) IN
                IF from = None THEN k \notin DOMAIN root'.data.runtimes
                ELSE /\ k \in DOMAIN root'.data.runtimes
                     /\ root'.data.runtimes[k] = <<from[1], k>>]_vars

\* test is defined by the nested include z and by the later sibling y, not by
\* the parent or by x: the merged test is the one of z; sh comes from x, which
\* beats its nested z and the sibling y
C25_Witness ==
  /\ mpc = "merged" /\ outcome = "ok"
  /\ root.data.includes = <<IX, IY>>
  /\ disk[PathOf(IX)]["mold.yaml"].includes = <<IZ>>
  /\ "test" \notin DOMAIN disk[PathOf(IX)]["mold.yaml"].recipes
  /\ "test" \in DOMAIN disk[PathOf(IY)]["mold.yaml"].recipes
  /\ "test" \in DOMAIN root.data.recipes
  /\ root.data.recipes["test"].command = <<PathOf(IZ), "test">>
  /\ "sh" \in DOMAIN disk[PathOf(IY)]["mold.yaml"].runtimes
  /\ "sh" \in DOMAIN disk[PathOf(IZ)]["mold.yaml"].runtimes
  /\ "sh" \in DOMAIN root.data.runtimes
  /\ root.data.runtimes["sh"] = <<PathOf(IX), "sh">>


\* ------------------------------------------------------------------ claims: existing cache folders

\* the remotes a moldfile refers to: its Module recipes and its includes
RemotesOf(data) ==
  {Include(data.recipes[k].url, data.recipes[k].ref_, data.recipes[k].file)
     : k \in {k \in DOMAIN data.recipes : data.recipes[k].kind = "Module"}}
  \cup {data.includes[i] : i \in 1..Len(data.includes)}

\* one more level: the remotes of the moldfiles of those of `found` whose
\* folder is missing
Deeper(found) ==
  found \cup UNION {RemotesOf(origin[i.url][i.ref_]["mold.yaml"])
                      : i \in {i \in found : PathOf(i) \notin DOMAIN disk}}

\* the remotes of the root and, through folders that are missing only, the
\* remotes nested in them (three remotes exist, so three levels close the set)
Wanted == Deeper(Deeper(Deeper(RemotesOf(root.data))))

\* C26: clone_all leaves every folder that exists as it is, with no fetch and
\* no checkout in it, and does not descend into it: the only folders it creates
\* are those of remotes reached from the root through missing folders, so a
\* remote nested only in moldfiles of existing folders stays unfetched
C26_ExistingFolderNotDescended ==
  [][(mpc = "opened" /\ mpc' = "cloned") =>
       /\ \A p \in DOMAIN disk : p \in DOMAIN disk' /\ disk'[p] = disk[p]
       /\ \A i \in 1..Len(clonelog') : clonelog'[i].path \notin DOMAIN disk
       /\ \A i \in 1..Len(checkouts') : checkouts'[i].path \notin DOMAIN disk
       /\ \A p \in DOMAIN disk' \ DOMAIN disk : \E i \in Wanted : p = PathOf(i)
       /\ \A i \in 1..Len(clonelog') : \E j \in Wanted : clonelog'[i].path = PathOf(j)]_vars

\* the root includes y alone, whose folder exists; y's moldfile has the module
\* m on x at master, whose folder is missing: clone_all succeeds without a
\* single fetch and x is still missing
C26_Witness ==
  /\ mpc = "cloned" /\ outcome = "ok"
  /\ root.data.includes = <<I3>> /\ root.data.recipes = Empty
  /\ PathOf(I3) \in DOMAIN disk
  /\ "m" \in DOMAIN disk[PathOf(I3)]["mold.yaml"].recipes
  /\ PathOf(I1) \notin DOMAIN disk
  /\ clonelog = <<>> /\ checkouts = <<>>


\* ------------------------------------------------------------------ claims: resolve before running

\* C27: run builds the Task of every name of the resolved target list before it
\* executes the first one: once a command has been spawned, resolution had
\* succeeded and every name of the list has its Task; if resolution or any
\* find_task call fails, no command has been spawned
C27_ResolveBeforeRun ==
  /\ ran # <<>> =>
       /\ resolved.st = "ok"
       /\ Len(tasks) = Len(resolved.v)
       /\ \A i \in 1..Len(tasks) : run_find_task(root, resolved.v[i]) = Ok(tasks[i])
  /\ (rpc # "resolve" /\ resolved.st # "ok") => ran = <<>> /\ rpc = "failed"
  /\ (rpc # "resolve" /\ resolved.st = "ok"
        /\ \E i \in 1..Len(resolved.v) : run_find_task(root, resolved.v[i]).st # "ok")
       => ran = <<>> /\ rpc \in {"collect", "failed"}

\* the targets a and g: a resolves and its Task is built, then find_task fails
\* on the group g, and run is left with the command of a never spawned
C27_Witness ==
  /\ rpc = "failed" /\ ~dry
  /\ resolved = Ok(<< <<"a">>, <<"g">> >>)
  /\ Len(tasks) = 1 /\ tasks[1].args # <<>>
  /\ task.st = "err"
  /\ ran = <<>>

====
